---- MODULE Spec2Model ----
(***************************************************************************)
(* Verification model of the annotation quality checker                    *)
(* (src/src/rules_checker.py, src/src/batch_processor.py,                  *)
(*  src/src/data_loader.py).                                               *)
(*                                                                         *)
(* SpecPose  : RuleChecker pose resolution (_build_ins_index,              *)
(*             get_ins_by_timestamp, get_ins_interpolated).                *)
(* SpecRules : RuleChecker constructed on a rule configuration, then one  *)
(*             of check_object, classify_motion_state called on it.        *)
(* SpecMotion: RuleChecker constructed on the default rules, then one of   *)
(*             transform_to_world, _estimate_motion_vector,                *)
(*             check_motion_alignment, check_trajectory_consistency        *)
(*             called on it.                                               *)
(* SpecBatch : BatchProcessor.process_all (track construction, per-frame   *)
(*             checking, report).                                          *)
(* SpecFrame : RuleChecker constructed, then check_object,                 *)
(*             check_motion_alignment and check_trajectory_consistency     *)
(*             called repeatedly on the objects of tracks in memory.       *)
(*                                                                         *)
(* Python values are modelled explicitly:                                  *)
(*   None            -> the record [kind |-> "None"] / PyNone              *)
(*   int             -> [t |-> "int", v |-> n]                             *)
(*   str             -> [t |-> "str", v |-> <<code points>>]               *)
(*   float results   -> exact rationals <<numerator, denominator>>         *)
(***************************************************************************)
EXTENDS Integers, Sequences, FiniteSets, TLC

VARIABLES
    \* ---- RuleChecker (pose resolver) ----
    ins_data,        \* self.ins_data : the pose log as supplied (sequence of entries)
    ins_index,       \* self._ins_index : insertion-ordered dict, as a sequence of [key, value]
    pose_call,       \* the last pose query: [op, timestamp]
    pose_result,     \* what that query returned
    \* ---- BatchProcessor.process_all ----
    cached_data,     \* data_loader.cached_data / the annotation files (the catalog)
    pc,              \* position inside process_all
    tracks,          \* tracks : insertion-ordered dict instance_token -> list of (frame_id, obj)
    frame_ids,       \* frame_ids after sorting
    frame_cursor,    \* number of frames of the per-frame loop already processed
    checked,         \* identities of the objects check_object was run on
    motion_calls,    \* identities of the objects check_motion_alignment was invoked for
    issues_by_frame, \* issues_by_frame : sequence of [frame_id, frame_issues]
    report,          \* what generate_report wrote (None before)
    raised,          \* the exception that left process_all: [exc, line], NoException if none
    \* ---- RuleChecker (validators called directly) ----
    self_rules,      \* self.rules : the rule configuration, as a function from its keys
    self_thresholds, \* the threshold attributes assigned at construction
    rule_call,       \* the last validator call: [op, ...arguments]
    rule_result,     \* what that call returned, or the exception it raised
    rule_log         \* the validator calls made on the tracks in memory, with their results

pose_vars == <<ins_data, ins_index, pose_call, pose_result>>
batch_vars == <<cached_data, pc, tracks, frame_ids, frame_cursor, checked,
                motion_calls, issues_by_frame, report, raised>>
rule_vars == <<self_rules, self_thresholds, rule_call, rule_result, rule_log>>
vars == <<ins_data, ins_index, pose_call, pose_result,
          cached_data, pc, tracks, frame_ids, frame_cursor, checked,
          motion_calls, issues_by_frame, report, raised,
          self_rules, self_thresholds, rule_call, rule_result, rule_log>>

(***************************************************************************)
(* Generic helpers                                                         *)
(***************************************************************************)
Abs(x) == IF x < 0 THEN -x ELSE x

Range(s) == {s[i] : i \in 1..Len(s)}

\* All sequences over S of length 0..n
SeqsUpTo(S, n) == UNION {[1..k -> S] : k \in 0..n}

RECURSIVE Gcd(_, _)
Gcd(a, b) == IF b = 0 THEN a ELSE Gcd(b, a % b)

NoResult == [kind |-> "None"]

\* no exception has left the operation; otherwise exc is its type and line the
\* source line of the statement that raised
NoException == [exc |-> "none", line |-> 0]

\* every reordering of a sequence
SeqPermutations(s) ==
    LET n == Len(s)
        bij == {f \in [1..n -> 1..n] : \A i, j \in 1..n : f[i] = f[j] => i = j}
    IN  {[i \in 1..n |-> s[f[i]]] : f \in bij}

(***************************************************************************)
(* Pose log                                                                *)
(***************************************************************************)
\* Bound: longest pose log explored
MaxLog == 3

\* 100 ms in nanoseconds, the tolerance of both resolvers
PoseTolerance == 100000000

\* timestamps (ns) of log entries: 0, 50 ms, 100 ms, 150 ms, 300 ms
LogTimestamps == {0, 50000000, 100000000, 150000000, 300000000}

\* query targets: the log timestamps, 120 ms, 200 ms and 200 ms + 1 ns
TargetTimestamps == LogTimestamps \cup {120000000, 200000000, 200000001}

\* (utm_x, utm_y, utm_z) and quaternion (w, x, y, z) carried by an entry
PoseValues == { [utm |-> <<0, 0, 0>>, quat |-> <<1, 0, 0, 0>>],
                [utm |-> <<1, 0, 0>>, quat |-> <<0, 0, 0, 1>>] }

InsEntries == { [timestamp_nanosec |-> t, utm |-> p.utm, quat |-> p.quat] :
                    t \in LogTimestamps, p \in PoseValues }

(***************************************************************************)
(* RuleChecker._build_ins_index : dict insertion, skipping falsy keys      *)
(***************************************************************************)
HasKey(index, k) == \E i \in 1..Len(index) : index[i].key = k

Lookup(index, k) == index[CHOOSE i \in 1..Len(index) : index[i].key = k].value

\* d[k] = v on an insertion-ordered dict: an existing key keeps its position
DictPut(index, k, v) ==
    IF HasKey(index, k)
    THEN [i \in 1..Len(index) |->
            IF index[i].key = k THEN [key |-> k, value |-> v] ELSE index[i]]
    ELSE Append(index, [key |-> k, value |-> v])

\* `if ts:` is false for ts = 0 (and for a missing timestamp)
Truthy(ts) == ts # 0

RECURSIVE BuildFrom(_, _, _)
BuildFrom(data, i, index) ==
    IF i > Len(data) THEN index
    ELSE BuildFrom(data, i + 1,
                   IF Truthy(data[i].timestamp_nanosec)
                   THEN DictPut(index, data[i].timestamp_nanosec, data[i])
                   ELSE index)

build_ins_index(data) == BuildFrom(data, 1, <<>>)

(***************************************************************************)
(* RuleChecker.get_ins_by_timestamp                                        *)
(***************************************************************************)
\* min(timestamps, key=...) : the first key, in dict order, of minimal distance
ClosestPos(index, timestamp) ==
    CHOOSE i \in 1..Len(index) :
        /\ \A j \in 1..Len(index) :
              Abs(index[i].key - timestamp) <= Abs(index[j].key - timestamp)
        /\ \A j \in 1..(i - 1) :
              Abs(index[j].key - timestamp) > Abs(index[i].key - timestamp)

get_ins_by_timestamp(index, timestamp) ==
    IF index = <<>> THEN NoResult
    ELSE IF HasKey(index, timestamp)
    THEN [kind |-> "entry", entry |-> Lookup(index, timestamp)]
    ELSE LET closest == index[ClosestPos(index, timestamp)].key
         IN  IF Abs(closest - timestamp) > PoseTolerance
             THEN NoResult
             ELSE [kind |-> "entry", entry |-> Lookup(index, closest)]

(***************************************************************************)
(* RuleChecker.get_ins_interpolated                                        *)
(***************************************************************************)
KeySet(index) == {index[i].key : i \in 1..Len(index)}

SetMax(S) == CHOOSE x \in S : \A y \in S : y <= x
SetMin(S) == CHOOSE x \in S : \A y \in S : x <= y

\* prev + ratio * (next - prev), ratio = rnum / rden, as an exact rational
Lerp(prev_val, next_val, rnum, rden) ==
    <<prev_val * rden + rnum * (next_val - prev_val), rden>>

\* the component-wise interpolated quaternion, then divided by its norm when
\* the norm is positive: kept as a direction (the numerators over the common
\* denominator) and the flag of whether it was normalized
InterpolatedQuat(prev_quat, next_quat, rnum, rden) ==
    LET dir == [i \in 1..4 |-> Lerp(prev_quat[i], next_quat[i], rnum, rden)[1]]
    IN  [dir |-> dir, normalized |-> (\E i \in 1..4 : dir[i] # 0)]

get_ins_interpolated(index, timestamp) ==
    IF index = <<>> THEN NoResult
    ELSE IF HasKey(index, timestamp)
    THEN [kind |-> "entry", entry |-> Lookup(index, timestamp)]
    ELSE
      LET before == {k \in KeySet(index) : k < timestamp}
          after  == {k \in KeySet(index) : k > timestamp}
      IN
      IF before = {}
      THEN LET next_ts == SetMin(after)
           IN  IF Abs(next_ts - timestamp) > PoseTolerance THEN NoResult
               ELSE [kind |-> "entry", entry |-> Lookup(index, next_ts)]
      ELSE IF after = {}
      THEN LET prev_ts == SetMax(before)
           IN  IF Abs(timestamp - prev_ts) > PoseTolerance THEN NoResult
               ELSE [kind |-> "entry", entry |-> Lookup(index, prev_ts)]
      ELSE
        LET prev_ts == SetMax(before)
            next_ts == SetMin(after)
            prev_ins == Lookup(index, prev_ts)
            next_ins == Lookup(index, next_ts)
            total_time == next_ts - prev_ts
            rnum == IF total_time > 0 THEN timestamp - prev_ts ELSE 0
            rden == IF total_time > 0 THEN total_time ELSE 1
        IN
        IF \/ Abs(timestamp - prev_ts) > PoseTolerance
           \/ Abs(next_ts - timestamp) > PoseTolerance
        THEN NoResult
        ELSE [kind |-> "interpolated",
              utm  |-> [i \in 1..3 |-> Lerp(prev_ins.utm[i], next_ins.utm[i], rnum, rden)],
              quat |-> InterpolatedQuat(prev_ins.quat, next_ins.quat, rnum, rden),
              timestamp_nanosec |-> timestamp]

(***************************************************************************)
(* Python values used as frame identifiers and class labels                *)
(***************************************************************************)
PyInt(n) == [t |-> "int", v |-> <<n>>]
PyStr(chars) == [t |-> "str", v |-> chars]
\* the key is absent from the object
Missing == [t |-> "missing", v |-> <<>>]

\* strings as sequences of code points
Str0 == <<48>>
Str1 == <<49>>
Str2 == <<50>>
Str10 == <<49, 48>>
StrUnknown == <<117, 110, 107, 110, 111, 119, 110>>
StrCar == <<99, 97, 114>>
StrVehicle == <<118, 101, 104, 105, 99, 108, 101>>
StrPedestrian == <<112, 101, 100, 101, 115, 116, 114, 105, 97, 110>>
StrCone == <<99, 111, 110, 101>>
StrSign == <<115, 105, 103, 110>>

\* a == b on frame identifiers: an int never equals a str
PyEq(a, b) == a.t = b.t /\ a.v = b.v

\* str < str : lexicographic by code point
RECURSIVE StrLess(_, _)
StrLess(a, b) ==
    IF b = <<>> THEN FALSE
    ELSE IF a = <<>> THEN TRUE
    ELSE IF a[1] # b[1] THEN a[1] < b[1]
    ELSE StrLess(Tail(a), Tail(b))

\* a < b for two values of the same type (int < str raises TypeError)
PyLess(a, b) ==
    IF a.t = "int" THEN a.v[1] < b.v[1] ELSE StrLess(a.v, b.v)

\* int(x) succeeds: an int, or a non-empty string of decimal digits
IntLike(x) ==
    \/ x.t = "int"
    \/ x.t = "str" /\ x.v # <<>> /\ \A i \in 1..Len(x.v) : x.v[i] \in 48..57

RECURSIVE DigitsValue(_)
DigitsValue(chars) ==
    IF chars = <<>> THEN 0
    ELSE 10 * DigitsValue(SubSeq(chars, 1, Len(chars) - 1)) + (chars[Len(chars)] - 48)

\* int(x)
ToInt(x) == IF x.t = "int" THEN x.v[1] ELSE DigitsValue(x.v)

\* str.lower()
Lower(chars) ==
    [i \in 1..Len(chars) |-> IF chars[i] \in 65..90 THEN chars[i] + 32 ELSE chars[i]]

\* sub in s
Contains(s, sub) ==
    \E i \in 0..(Len(s) - Len(sub)) : SubSeq(s, i + 1, i + Len(sub)) = sub

(***************************************************************************)
(* list.sort(key=...) : stable, comparing keys with <                      *)
(* elements are records with the key in field k                            *)
(***************************************************************************)
\* the sort compares an int with a str somewhere, and raises TypeError
SortRaises(seq) ==
    Len(seq) >= 2 /\ \E i, j \in 1..Len(seq) : seq[i].k.t # seq[j].k.t

InsertStable(sorted, e) ==
    LET later == {i \in 1..Len(sorted) : PyLess(e.k, sorted[i].k)}
    IN  IF later = {} THEN Append(sorted, e)
        ELSE LET pos == CHOOSE i \in later : \A j \in later : i <= j
             IN  SubSeq(sorted, 1, pos - 1) \o <<e>> \o SubSeq(sorted, pos, Len(sorted))

RECURSIVE StableSort(_)
StableSort(seq) ==
    IF seq = <<>> THEN <<>>
    ELSE InsertStable(StableSort(SubSeq(seq, 1, Len(seq) - 1)), seq[Len(seq)])

(***************************************************************************)
(* RuleChecker.check_object                                                *)
(* sizes in centimetres, quaternion components in hundredths               *)
(***************************************************************************)
\* the test configuration's minimum point count
TestMinLidarPoints == 5

\* a complete rule configuration (every class keyword has a rule set)
DefaultRules ==
    [min_lidar_points |-> TestMinLidarPoints,
     vehicle    |-> [length_range |-> <<150, 1200>>, width_range |-> <<100, 300>>,
                     height_range |-> <<100, 400>>],
     pedestrian |-> [length_range |-> <<20, 120>>, width_range |-> <<20, 120>>,
                     height_range |-> <<50, 220>>],
     cone       |-> [length_range |-> <<10, 80>>, width_range |-> <<10, 80>>,
                     height_range |-> <<10, 120>>],
     sign       |-> [length_range |-> <<5, 300>>, width_range |-> <<5, 300>>,
                     height_range |-> <<20, 500>>]]

\* a count equal to the minimum flagged too
TooFewPointsInclusive(num_pts, rules) == num_pts <= rules.min_lidar_points

\* the bounds of a range rejected
InRangeExclusive(x, range) == range[1] < x /\ x < range[2]

\* the norm compared on one side only
NormOffAbove(rotation) ==
    rotation[1] * rotation[1] + rotation[2] * rotation[2]
        + rotation[3] * rotation[3] + rotation[4] * rotation[4] > 10201

\* 'sign' tested before 'vehicle'
RuleKeySignFirst(obj_class) ==
    IF Contains(obj_class, StrSign) THEN "sign"
    ELSE IF Contains(obj_class, StrVehicle) THEN "vehicle"
    ELSE IF Contains(obj_class, StrPedestrian) THEN "pedestrian"
    ELSE IF Contains(obj_class, StrCone) THEN "cone"
    ELSE "none"

\* the rule key selected by the class label, "none" when no keyword matches
RuleKey(obj_class) ==
    IF Contains(obj_class, StrVehicle) THEN "vehicle"
    ELSE IF Contains(obj_class, StrPedestrian) THEN "pedestrian"
    ELSE IF Contains(obj_class, StrCone) THEN "cone"
    ELSE IF Contains(obj_class, StrSign) THEN "sign"
    ELSE "none"

\* rules[...] raises KeyError: min_lidar_points, or the selected rule set, is absent
CheckObjectRaises(obj, rules) ==
    \/ "min_lidar_points" \notin DOMAIN rules
    \/ /\ Len(obj.size) = 3
       /\ RuleKey(Lower(obj.Class)) # "none"
       /\ RuleKey(Lower(obj.Class)) \notin DOMAIN rules

\* num_pts < self.rules['min_lidar_points']
TooFewPoints(num_pts, rules) == num_pts < rules.min_lidar_points

InRange(x, range) == range[1] <= x /\ x <= range[2]

\* |norm - 1.0| > 0.01 on the squared norm, in units of 1e-4
NormOff(rotation) ==
    LET n2 == rotation[1] * rotation[1] + rotation[2] * rotation[2]
                + rotation[3] * rotation[3] + rotation[4] * rotation[4]
    IN  n2 > 10201 \/ n2 < 9801

\* get_euler_angles: |roll| > 0.5 with roll = atan2(sinr_cosp, cosr_cosp);
\* tan(0.5) = 0.5463...
RollExceeds(q) ==
    LET sinr_cosp == 2 * (q[1] * q[2] + q[3] * q[4])
        cosr_cosp == 10000 - 2 * (q[2] * q[2] + q[3] * q[3])
    IN  IF cosr_cosp > 0 THEN Abs(sinr_cosp) * 10000 > cosr_cosp * 5463
        ELSE sinr_cosp # 0 \/ cosr_cosp < 0

\* get_euler_angles: |pitch| > 0.5 with pitch = asin(sinp), or +-pi/2 when
\* |sinp| >= 1; sin(0.5) = 0.4794...
PitchExceeds(q) ==
    LET sinp == 2 * (q[1] * q[3] - q[4] * q[2])
    IN  Abs(sinp) > 4794

SizeIssues(size, rule) ==
    (IF InRange(size[1], rule.length_range) THEN <<>>
        ELSE <<[issue |-> "length", value |-> size[1]]>>)
    \o (IF InRange(size[2], rule.width_range) THEN <<>>
        ELSE <<[issue |-> "width", value |-> size[2]]>>)
    \o (IF InRange(size[3], rule.height_range) THEN <<>>
        ELSE <<[issue |-> "height", value |-> size[3]]>>)

\* the issue list of check_object (when it does not raise)
check_object(obj, rules) ==
    LET obj_class == Lower(obj.Class)
        key == RuleKey(obj_class)
    IN  (IF TooFewPoints(obj.num_lidar_pts, rules)
         THEN <<[issue |-> "too_few_points", value |-> obj.num_lidar_pts]>>
         ELSE <<>>)
        \o (IF Len(obj.size) = 3 /\ key # "none"
            THEN SizeIssues(obj.size, rules[key])
            ELSE <<>>)
        \o (IF Len(obj.rotation) = 4
            THEN (IF NormOff(obj.rotation)
                  THEN <<[issue |-> "not_normalized", value |-> 0]>> ELSE <<>>)
                 \o (IF Contains(obj_class, StrVehicle)
                     THEN (IF RollExceeds(obj.rotation)
                           THEN <<[issue |-> "roll", value |-> 0]>> ELSE <<>>)
                          \o (IF PitchExceeds(obj.rotation)
                              THEN <<[issue |-> "pitch", value |-> 0]>> ELSE <<>>)
                     ELSE <<>>)
            ELSE <<>>)

(***************************************************************************)
(* The per-sequence object catalog (data_loader.cached_data, or the        *)
(* per-frame annotation files when nothing is cached)                      *)
(***************************************************************************)
\* Bound: most objects in a catalog
MaxObjs == 3

\* `if inst_id:` : None (absent key, written "None") and '' are falsy
HasInstance(obj) == obj.instance_token \notin {"None", ""}

\* frame keys of a frame -> object-list catalog (JSON object keys are strings)
DictFrameIds == {PyStr(Str0), PyStr(Str1), PyStr(Str2), PyStr(Str10)}

\* frame_id values of a flat catalog: absent, a string and integers
ListFrameIds == {Missing, PyStr(Str2), PyInt(2), PyInt(10)}

\* the object of the unit test (class 'car', size 2 m, 10 points), the same
\* object with 3 points, without instance_token, with an empty one, and in
\* the tracks "A" and "B"
ObjectShapes ==
    { [token |-> "ok",  instance_token |-> "None", num_lidar_pts |-> 10],
      [token |-> "few", instance_token |-> "None", num_lidar_pts |-> 3],
      [token |-> "few", instance_token |-> "",     num_lidar_pts |-> 3],
      [token |-> "few", instance_token |-> "A",    num_lidar_pts |-> 3],
      [token |-> "ok",  instance_token |-> "B",    num_lidar_pts |-> 10] }

Objects(frameIds) ==
    { [token |-> g.token, Class |-> StrCar, num_lidar_pts |-> g.num_lidar_pts,
       size |-> <<200, 200, 200>>, rotation |-> <<>>,
       instance_token |-> g.instance_token, frame_id |-> f] :
          g \in ObjectShapes, f \in frameIds }

\* the frame -> object-list form of a sequence of objects: frames in order of
\* first occurrence, objects in order
RECURSIVE GroupByFrame(_, _, _)
GroupByFrame(flat, i, frames) ==
    IF i > Len(flat) THEN frames
    ELSE LET o == flat[i]
             at == {j \in 1..Len(frames) : frames[j].frame_id = o.frame_id}
         IN  GroupByFrame(flat, i + 1,
                IF at = {}
                THEN Append(frames, [frame_id |-> o.frame_id, objs |-> <<o>>])
                ELSE [j \in 1..Len(frames) |->
                        IF j \in at
                        THEN [frames[j] EXCEPT !.objs = Append(@, o)]
                        ELSE frames[j]])

FrameCatalogs ==
    {GroupByFrame(flat, 1, <<>>) : flat \in SeqsUpTo(Objects(DictFrameIds), MaxObjs)}

\* "dict"   : one cached file, frame id -> object list
\* "list"   : one cached file, a flat list of objects carrying frame_id
\* "folder" : nothing cached, one annotation file per frame
Catalogs ==
    {[kind |-> "dict", frames |-> fr] : fr \in FrameCatalogs}
    \cup {[kind |-> "folder", frames |-> fr] : fr \in FrameCatalogs}
    \cup {[kind |-> "list", objs |-> os] : os \in SeqsUpTo(Objects(ListFrameIds), MaxObjs)}

\* object identity: the place of the object in the catalog and the load that
\* created it (json.load creates new objects at every read of a file)
Ref(f, k, load) == [pos |-> <<f, k>>, load |-> load]

(***************************************************************************)
(* process_all, lines 84-119: track construction                           *)
(***************************************************************************)
RECURSIVE FrameEntries(_, _, _)
FrameEntries(frames, f, load) ==
    IF f > Len(frames) THEN <<>>
    ELSE [k \in 1..Len(frames[f].objs) |->
            [k |-> frames[f].frame_id, obj |-> frames[f].objs[k], ref |-> Ref(f, k, load)]]
         \o FrameEntries(frames, f + 1, load)

\* obj.get('frame_id', 'unknown')
FrameIdOrDefault(obj) ==
    IF obj.frame_id = Missing THEN PyStr(StrUnknown) ELSE obj.frame_id

\* the (frame_id, obj) pairs in encounter order
Encountered(data) ==
    IF data.kind = "list"
    THEN [k \in 1..Len(data.objs) |->
            [k |-> FrameIdOrDefault(data.objs[k]), obj |-> data.objs[k],
             ref |-> Ref(0, k, "cached")]]
    ELSE FrameEntries(data.frames, 1, IF data.kind = "folder" THEN "first" ELSE "cached")

RECURSIVE GroupTracks(_, _, _)
GroupTracks(entries, i, acc) ==
    IF i > Len(entries) THEN acc
    ELSE LET e == entries[i]
             inst_id == e.obj.instance_token
         IN  GroupTracks(entries, i + 1,
                IF ~HasInstance(e.obj) THEN acc
                ELSE IF HasKey(acc, inst_id)
                THEN DictPut(acc, inst_id, Append(Lookup(acc, inst_id), e))
                ELSE DictPut(acc, inst_id, <<e>>))

\* tracks[inst_id].sort(key=lambda x: x[0]) for each track in turn; stops at
\* the first track whose sort raises
RECURSIVE SortTracks(_, _)
SortTracks(trs, i) ==
    IF i > Len(trs) THEN [tracks |-> trs, raised |-> NoException]
    ELSE IF SortRaises(trs[i].value)
    THEN [tracks |-> trs, raised |-> [exc |-> "TypeError", line |-> 119]]
    ELSE SortTracks([trs EXCEPT ![i].value = StableSort(@)], i + 1)

build_tracks(data) == SortTracks(GroupTracks(Encountered(data), 1, <<>>), 1)

(***************************************************************************)
(* process_all, lines 122-135: frame ids and frame -> pose map             *)
(***************************************************************************)
\* data_loader.get_all_frame_ids: the key list of a dict, the glob of a
\* folder, list(set(...)) of a flat list (any order)
RECURSIVE DistinctIds(_, _, _)
DistinctIds(objs, i, acc) ==
    IF i > Len(objs) THEN acc
    ELSE DistinctIds(objs, i + 1,
            IF objs[i].frame_id = Missing \/ \E j \in 1..Len(acc) : PyEq(acc[j], objs[i].frame_id)
            THEN acc ELSE Append(acc, objs[i].frame_id))

get_all_frame_ids(data) ==
    IF data.kind = "list"
    THEN SeqPermutations(DistinctIds(data.objs, 1, <<>>))
    ELSE {[f \in 1..Len(data.frames) |-> data.frames[f].frame_id]}

Keyed(ids, byInt) ==
    [i \in 1..Len(ids) |-> [k |-> IF byInt THEN PyInt(ToInt(ids[i])) ELSE ids[i], id |-> ids[i]]]

Unkeyed(seq) == [i \in 1..Len(seq) |-> seq[i].id]

\* try: frame_ids.sort(key=int)  except: frame_ids.sort()
sort_frame_ids(ids) ==
    IF \A i \in 1..Len(ids) : IntLike(ids[i])
    THEN [frame_ids |-> Unkeyed(StableSort(Keyed(ids, TRUE))), raised |-> NoException]
    ELSE IF SortRaises(Keyed(ids, FALSE))
    THEN [frame_ids |-> ids, raised |-> [exc |-> "TypeError", line |-> 127]]
    ELSE [frame_ids |-> Unkeyed(StableSort(Keyed(ids, FALSE))), raised |-> NoException]

\* frame_to_ins.get(fid): the i-th frame id maps to the i-th pose of the log
FrameToIns(ids, data, fid) ==
    LET at == {i \in 1..Len(ids) : PyEq(ids[i], fid) /\ i <= Len(data)}
    IN  IF at = {} THEN NoResult
        ELSE [kind |-> "entry", entry |-> data[CHOOSE i \in at : TRUE]]

(***************************************************************************)
(* process_all, lines 137-181: the per-frame loop                          *)
(***************************************************************************)
\* data_loader.load_annotation(frame_id): the objects of a frame with their
\* identities; a folder is read from disk again, which creates new objects
load_annotation(data, frame_id) ==
    IF data.kind = "list"
    THEN LET all == Encountered(data)
             filtered == SelectSeq(all, LAMBDA e : PyEq(e.obj.frame_id, frame_id))
         IN  IF filtered # <<>> THEN filtered ELSE all
    ELSE LET f == CHOOSE f \in 1..Len(data.frames) : data.frames[f].frame_id = frame_id
         IN  [k \in 1..Len(data.frames[f].objs) |->
                [k |-> frame_id, obj |-> data.frames[f].objs[k],
                 ref |-> Ref(f, k, IF data.kind = "folder" THEN "second" ELSE "cached")]]

\* the positional parameters check_motion_alignment accepts after self
\* (obj, track, frame_idx, frame_to_ins)
MotionAlignmentParams == 4

\* the positional arguments process_all passes
\* (obj, prev_obj, next_obj, curr_ins, prev_ins, next_ins)
MotionCallArgs == 6

\* binding the call's arguments to the signature fails
MotionCallRaises == MotionCallArgs > MotionAlignmentParams

\* `if prev_fid` : 0 and '' are falsy
FidTruthy(fid) == ~(fid.t = "int" /\ fid.v[1] = 0) /\ fid.v # <<>>

\* index of the object in its track by identity (`o is obj`), 0 if absent
TrackIndex(track, ref) ==
    LET at == {i \in 1..Len(track) : track[i].ref = ref}
    IN  IF at = {} THEN 0 ELSE CHOOSE i \in at : \A j \in at : i <= j

\* the arguments of the motion check of the object at idx of track
MotionCall(track, idx, ids, data, frame_id) ==
    LET prev_fid == IF idx > 1 THEN track[idx - 1].k ELSE Missing
        next_fid == IF idx < Len(track) THEN track[idx + 1].k ELSE Missing
    IN  [obj |-> track[idx].ref,
         prev_obj |-> IF idx > 1 THEN track[idx - 1].ref ELSE NoResult,
         next_obj |-> IF idx < Len(track) THEN track[idx + 1].ref ELSE NoResult,
         curr_ins |-> FrameToIns(ids, data, frame_id),
         prev_ins |-> IF idx > 1 /\ FidTruthy(prev_fid)
                      THEN FrameToIns(ids, data, prev_fid) ELSE NoResult,
         next_ins |-> IF idx < Len(track) /\ FidTruthy(next_fid)
                      THEN FrameToIns(ids, data, next_fid) ELSE NoResult]

\* the body of `for obj in objects`, from the i-th object on; acc carries
\* checked, motion_calls, frame_issues and the exception, if one was raised
RECURSIVE CheckObjects(_, _, _, _, _, _, _)
CheckObjects(objects, i, acc, trs, ids, data, frame_id) ==
    IF i > Len(objects) \/ acc.raised # NoException THEN acc
    ELSE
      LET o == objects[i].obj
          ref == objects[i].ref
          seen == acc.checked \cup {ref}
          obj_issues == check_object(o, DefaultRules)
          inTrack == HasInstance(o) /\ HasKey(trs, o.instance_token)
          idx == IF inTrack THEN TrackIndex(Lookup(trs, o.instance_token), ref) ELSE 0
      IN
      IF CheckObjectRaises(o, DefaultRules)
      THEN [acc EXCEPT !.checked = seen, !.raised = [exc |-> "KeyError", line |-> 144]]
      ELSE IF idx # 0 /\ MotionCallRaises
      THEN [acc EXCEPT !.checked = seen,
                       !.motion_calls = @ \cup
                           {MotionCall(Lookup(trs, o.instance_token), idx, ids, data, frame_id)},
                       !.raised = [exc |-> "TypeError", line |-> 167]]
      ELSE CheckObjects(objects, i + 1,
              [acc EXCEPT !.checked = seen,
                          !.motion_calls =
                              IF idx # 0
                              THEN @ \cup {MotionCall(Lookup(trs, o.instance_token),
                                                      idx, ids, data, frame_id)}
                              ELSE @,
                          !.frame_issues =
                              IF obj_issues # <<>>
                              THEN Append(@, [object_token |-> o.token, ref |-> ref,
                                              class_name |-> o.Class, issues |-> obj_issues])
                              ELSE @],
              trs, ids, data, frame_id)

(***************************************************************************)
(* The threshold attributes RuleChecker.__init__ assigns                   *)
(***************************************************************************)
\* self.static_threshold and self.low_speed_threshold, in cm/s
StaticThreshold == 10
LowSpeedThreshold == 50

\* self.angle_tolerance = 0.5236
AngleTolerance == 523600

\* self.min_track_length
MinTrackLength == 3

\* self.smooth_window
SmoothWindow == 3

\* the attributes as the constructor leaves them
Thresholds ==
    [low_speed_threshold |-> LowSpeedThreshold, static_threshold |-> StaticThreshold,
     angle_tolerance |-> AngleTolerance, min_track_length |-> MinTrackLength,
     smooth_window |-> SmoothWindow]

(***************************************************************************)
(* SpecBatch: BatchProcessor.process_all on a catalog                      *)
(***************************************************************************)
\* no validator has been called directly; the checker holds the complete rules
RuleIdle ==
    /\ self_rules = DefaultRules
    /\ self_thresholds = Thresholds
    /\ rule_call = [op |-> "none"]
    /\ rule_result = NoResult
    /\ rule_log = <<>>

\* pose logs of the batch runs: none, and one of two poses
BatchLogs ==
    { <<>>,
      << [timestamp_nanosec |-> 100000000, utm |-> <<0, 0, 0>>, quat |-> <<1, 0, 0, 0>>],
         [timestamp_nanosec |-> 200000000, utm |-> <<1, 0, 0>>, quat |-> <<0, 0, 0, 1>>] >> }

InitBatch ==
    /\ ins_data \in BatchLogs
    /\ ins_index = build_ins_index(ins_data)
    /\ pose_call = [op |-> "none", timestamp |-> 0]
    /\ pose_result = NoResult
    /\ cached_data \in Catalogs
    /\ pc = "start"
    /\ tracks = <<>>
    /\ frame_ids = <<>>
    /\ frame_cursor = 0
    /\ checked = {}
    /\ motion_calls = {}
    /\ issues_by_frame = <<>>
    /\ report = NoResult
    /\ raised = NoException
    /\ RuleIdle

\* lines 84-119
BuildTracks ==
    /\ pc = "start"
    /\ LET r == build_tracks(cached_data)
       IN  /\ tracks' = r.tracks
           /\ raised' = r.raised
           /\ pc' = IF r.raised = NoException THEN "frames" ELSE "raised"
    /\ UNCHANGED <<cached_data, frame_ids, frame_cursor, checked, motion_calls,
                   issues_by_frame, report>>
    /\ UNCHANGED pose_vars
    /\ UNCHANGED rule_vars

\* lines 122-135
SortFrameIds ==
    /\ pc = "frames"
    /\ \E ids \in get_all_frame_ids(cached_data) :
          LET r == sort_frame_ids(ids)
          IN  /\ frame_ids' = r.frame_ids
              /\ raised' = r.raised
              /\ pc' = IF r.raised = NoException THEN "loop" ELSE "raised"
    /\ UNCHANGED <<cached_data, tracks, frame_cursor, checked, motion_calls,
                   issues_by_frame, report>>
    /\ UNCHANGED pose_vars
    /\ UNCHANGED rule_vars

\* lines 137-181, one iteration of `for frame_id in frame_ids`
ProcessFrame ==
    /\ pc = "loop"
    /\ frame_cursor < Len(frame_ids)
    /\ LET frame_id == frame_ids[frame_cursor + 1]
           r == CheckObjects(load_annotation(cached_data, frame_id), 1,
                             [checked |-> checked, motion_calls |-> motion_calls,
                              frame_issues |-> <<>>, raised |-> NoException],
                             tracks, frame_ids, ins_data, frame_id)
       IN  /\ checked' = r.checked
           /\ motion_calls' = r.motion_calls
           /\ raised' = r.raised
           /\ pc' = IF r.raised = NoException THEN "loop" ELSE "raised"
           /\ issues_by_frame' =
                 IF r.raised = NoException /\ r.frame_issues # <<>>
                 THEN Append(issues_by_frame,
                             [frame_id |-> frame_id, frame_issues |-> r.frame_issues])
                 ELSE issues_by_frame
    /\ frame_cursor' = frame_cursor + 1
    /\ UNCHANGED <<cached_data, tracks, frame_ids, report>>
    /\ UNCHANGED pose_vars
    /\ UNCHANGED rule_vars

\* line 184
GenerateReport ==
    /\ pc = "loop"
    /\ frame_cursor = Len(frame_ids)
    /\ report' = [kind |-> "written", issues |-> issues_by_frame]
    /\ pc' = "done"
    /\ UNCHANGED <<cached_data, tracks, frame_ids, frame_cursor, checked, motion_calls,
                   issues_by_frame, raised>>
    /\ UNCHANGED pose_vars
    /\ UNCHANGED rule_vars

NextBatch == BuildTracks \/ SortFrameIds \/ ProcessFrame \/ GenerateReport

SpecBatch == InitBatch /\ [][NextBatch]_vars

(***************************************************************************)
(* SpecPose: a RuleChecker constructed on a pose log, then queried         *)
(***************************************************************************)
\* process_all has not been entered: BatchProcessor state of an empty run
BatchIdle ==
    /\ cached_data = [kind |-> "dict", frames |-> <<>>]
    /\ pc = "idle"
    /\ tracks = <<>>
    /\ frame_ids = <<>>
    /\ frame_cursor = 0
    /\ checked = {}
    /\ motion_calls = {}
    /\ issues_by_frame = <<>>
    /\ report = NoResult
    /\ raised = NoException

\* RuleChecker.__init__ : the index is built from the log at construction
InitPose ==
    /\ ins_data \in SeqsUpTo(InsEntries, MaxLog)
    /\ ins_index = build_ins_index(ins_data)
    /\ pose_call = [op |-> "none", timestamp |-> 0]
    /\ pose_result = NoResult
    /\ BatchIdle
    /\ RuleIdle

\* process_all is synchronous and never calls the resolvers: a query is made
\* on a checker that is not inside a run. The checkers that are queried are
\* the ones constructed on a pose log (InitPose), not the ones whose
\* validators are called (InitRules, InitMotion)
GetInsByTimestamp ==
    \E timestamp \in TargetTimestamps :
        /\ pc = "idle"
        /\ rule_call.op = "none"
        /\ pose_call' = [op |-> "get_ins_by_timestamp", timestamp |-> timestamp]
        /\ pose_result' = get_ins_by_timestamp(ins_index, timestamp)
        /\ UNCHANGED <<ins_data, ins_index>>
        /\ UNCHANGED batch_vars
        /\ UNCHANGED rule_vars

GetInsInterpolated ==
    \E timestamp \in TargetTimestamps :
        /\ pc = "idle"
        /\ rule_call.op = "none"
        /\ pose_call' = [op |-> "get_ins_interpolated", timestamp |-> timestamp]
        /\ pose_result' = get_ins_interpolated(ins_index, timestamp)
        /\ UNCHANGED <<ins_data, ins_index>>
        /\ UNCHANGED batch_vars
        /\ UNCHANGED rule_vars

NextPose == GetInsByTimestamp \/ GetInsInterpolated

SpecPose == InitPose /\ [][NextPose]_vars

(***************************************************************************)
(* SpecRules: a RuleChecker constructed on a rule configuration, then      *)
(* check_object and classify_motion_state called on it                     *)
(***************************************************************************)
Returned(value) == [kind |-> "returned", value |-> value]

\* the exception left the call; line is the source line that raised
Raised(exc, line) == [kind |-> "raised", exc |-> exc, line |-> line]

\* a dict without one of its keys
Without(dict, key) == [k \in DOMAIN dict \ {key} |-> dict[k]]

\* config['rules'] of the unit test: a minimum point count and two entries
\* the checker never reads
TestRules ==
    [min_lidar_points |-> TestMinLidarPoints,
     max_size |-> <<1000, 1000, 500>>,
     min_size |-> <<10, 10, 10>>]

\* configurations handed to the constructor: complete, the unit test's,
\* without the minimum point count, without one rule set, and without 'rules'
RuleConfigs ==
    { [rules |-> DefaultRules],
      [rules |-> TestRules],
      [rules |-> Without(DefaultRules, "min_lidar_points")],
      [rules |-> Without(DefaultRules, "vehicle")],
      [rules |-> Without(DefaultRules, "sign")],
      [data |-> "annotations"] }

\* RuleChecker.__init__ : self.rules = config['rules'], nothing else is read
rule_checker_init(config) ==
    IF "rules" \in DOMAIN config THEN Returned(config.rules)
    ELSE Raised("KeyError", 8)

\* class labels: no keyword, one keyword (one in capitals), and labels holding
\* two keywords
StrVehicleUpper == <<86, 69, 72, 73, 67, 76, 69>>
StrSignVehicle == StrSign \o StrVehicle
StrConePedestrian == StrCone \o StrPedestrian
StrSignCone == StrSign \o StrCone
ClassLabels ==
    {StrCar, StrVehicle, StrVehicleUpper, StrPedestrian, StrCone, StrSign,
     StrSignVehicle, StrConePedestrian, StrSignCone}

\* obj.get('size', []) in centimetres: absent, two values, and three values
\* around the limits of the vehicle rule set
SizeValues ==
    {<<>>, <<200, 200>>}
    \cup {<<l, w, h>> : l \in {149, 150, 1200, 1201}, w \in {100, 301}, h \in {99, 400}}

\* obj.get('rotation', []) in hundredths: absent, three values, the unit
\* quaternion, squared norms 1.0196 and 0.9802 (norm within 0.01 of 1.0),
\* 1.0225, 1.0404, 0.98 and 0.9604 (norm further than 0.01 from 1.0), and a
\* unit quaternion pitched by 106 degrees. A norm of exactly 1.01 or 0.99 is
\* no value of a binary float and is left out.
RotationValues ==
    {<<>>, <<100, 0, 0>>, <<100, 0, 0, 0>>, <<100, 14, 0, 0>>, <<99, 1, 0, 0>>,
     <<100, 15, 0, 0>>, <<102, 0, 0, 0>>, <<70, 0, 0, 70>>, <<98, 0, 0, 0>>,
     <<60, 0, 80, 0>>}

\* obj.get('num_lidar_pts', 0): absent (0), and around the test's minimum
PointCounts == {0, 4, 5, 6}

RuleObjects ==
    { [Class |-> c, size |-> sz, rotation |-> r, num_lidar_pts |-> n] :
        c \in ClassLabels, sz \in SizeValues, r \in RotationValues, n \in PointCounts }

\* the source line of self.rules[key] for the selected rule set
RuleLine(key) ==
    CASE key = "vehicle" -> 549
      [] key = "pedestrian" -> 551
      [] key = "cone" -> 553
      [] OTHER -> 555

\* check_object as called: the issue list, or the KeyError of a missing entry
check_object_call(obj, rls) ==
    LET key == RuleKey(Lower(obj.Class))
    IN  IF "min_lidar_points" \notin DOMAIN rls THEN Raised("KeyError", 541)
        ELSE IF Len(obj.size) = 3 /\ key # "none" /\ key \notin DOMAIN rls
        THEN Raised("KeyError", RuleLine(key))
        ELSE Returned(check_object(obj, rls))

\* a non-negative float sqrt(sq) / den, kept exact
Surd(sq, den) == [sq |-> sq, den |-> den]

\* a speed equal to the threshold put in the lower regime
SurdLessOrEqual(velocity, threshold) ==
    velocity.sq <= threshold * threshold * velocity.den * velocity.den

\* velocity < threshold on an exact value
SurdLess(velocity, threshold) ==
    velocity.sq < threshold * threshold * velocity.den * velocity.den

\* velocity > threshold on an exact value
SurdGreater(velocity, threshold) ==
    velocity.sq > threshold * threshold * velocity.den * velocity.den

\* the low-speed regime reaching up to 5 m/s
classify_motion_state_wide(velocity) ==
    IF SurdLess(velocity, StaticThreshold) THEN "static"
    ELSE IF SurdLess(velocity, 10 * LowSpeedThreshold) THEN "low_speed"
    ELSE "normal_speed"

classify_motion_state(velocity) ==
    IF SurdLess(velocity, StaticThreshold) THEN "static"
    ELSE IF SurdLess(velocity, LowSpeedThreshold) THEN "low_speed"
    ELSE "normal_speed"

\* speeds in cm/s handed to classify_motion_state: the test's 5, 30 and 100,
\* the thresholds and their neighbours
Speeds == {0, 5, 9, 10, 11, 30, 49, 50, 51, 100}

\* process_all is not running and no pose is queried
InitRules ==
    /\ ins_data = <<>>
    /\ ins_index = <<>>
    /\ pose_call = [op |-> "none", timestamp |-> 0]
    /\ pose_result = NoResult
    /\ BatchIdle
    /\ \E config \in RuleConfigs :
          LET r == rule_checker_init(config)
          IN  /\ self_rules = IF r.kind = "returned" THEN r.value ELSE NoResult
              /\ self_thresholds = IF r.kind = "returned" THEN Thresholds ELSE NoResult
              /\ rule_call = [op |-> "__init__", config |-> config]
              /\ rule_result = r
              /\ rule_log = <<>>

\* a validator is called on a checker whose construction succeeded, with
\* arguments drawn from the input sets (no track is held in memory); one call
\* per constructed checker is explored. Repeated calls on tracks in memory
\* are those of SpecFrame.
Constructed == self_rules # NoResult /\ rule_call.op = "__init__" /\ tracks = <<>>

CheckObject ==
    /\ pc = "idle"
    /\ Constructed
    /\ \E obj \in RuleObjects :
        /\ rule_call' = [op |-> "check_object", obj |-> obj]
        /\ rule_result' = check_object_call(obj, self_rules)
        /\ UNCHANGED <<self_rules, self_thresholds, rule_log>>
        /\ UNCHANGED pose_vars
        /\ UNCHANGED batch_vars

ClassifyMotionState ==
    /\ pc = "idle"
    /\ Constructed
    /\ \E v \in Speeds :
        /\ rule_call' = [op |-> "classify_motion_state", velocity |-> v]
        /\ rule_result' = Returned(classify_motion_state(Surd(v * v, 1)))
        /\ UNCHANGED <<self_rules, self_thresholds, rule_log>>
        /\ UNCHANGED pose_vars
        /\ UNCHANGED batch_vars

NextRules == CheckObject \/ ClassifyMotionState

SpecRules == InitRules /\ [][NextRules]_vars

(***************************************************************************)
(* Coordinate transform (quaternion_to_rotation_matrix, transform_to_world)*)
(* Ego-frame positions and utm_* are in centimetres; the components of a   *)
(* pose quaternion are in fifths, so that (4, 0, 0, 3) / 5 is an exact     *)
(* unit quaternion off the axes. The matrix is then in 25ths and a         *)
(* transformed position in 25ths of a centimetre.                          *)
(***************************************************************************)
\* 1.0 as a pose quaternion component
QuatOne == 5

\* 1.0 as a rotation matrix entry
MatOne == QuatOne * QuatOne

\* the matrix of q = (w, x, y, z), row by row
quaternion_to_rotation_matrix(q) ==
    LET w == q[1]
        x == q[2]
        y == q[3]
        z == q[4]
    IN  << <<MatOne - 2 * (y * y + z * z), 2 * (x * y - w * z), 2 * (x * z + w * y)>>,
           <<2 * (x * y + w * z), MatOne - 2 * (x * x + z * z), 2 * (y * z - w * x)>>,
           <<2 * (x * z - w * y), 2 * (y * z + w * x), MatOne - 2 * (x * x + y * y)>> >>

\* the quaternion assembled scalar-last
EgoQuatScalarLast(ins_entry) ==
    <<ins_entry.quaternion_x, ins_entry.quaternion_y,
      ins_entry.quaternion_z, ins_entry.quaternion_w>>

\* q_ego as transform_to_world assembles it from the entry
EgoQuat(ins_entry) ==
    <<ins_entry.quaternion_w, ins_entry.quaternion_x,
      ins_entry.quaternion_y, ins_entry.quaternion_z>>

\* R_ego @ pos_ego + ego_utm
transform_to_world(pos_ego, ins_entry) ==
    LET R_ego == quaternion_to_rotation_matrix(EgoQuat(ins_entry))
        ego_utm == <<ins_entry.utm_x, ins_entry.utm_y, ins_entry.utm_z>>
    IN  [i \in 1..3 |->
            R_ego[i][1] * pos_ego[1] + R_ego[i][2] * pos_ego[2] + R_ego[i][3] * pos_ego[3]
                + MatOne * ego_utm[i]]

\* an ego-frame position used untransformed, in the unit of world positions
Untransformed(pos_ego) == [i \in 1..3 |-> MatOne * pos_ego[i]]

Pose(utm, q) ==
    [utm_x |-> utm[1], utm_y |-> utm[2], utm_z |-> utm[3],
     quaternion_w |-> q[1], quaternion_x |-> q[2],
     quaternion_y |-> q[3], quaternion_z |-> q[4]]

\* poses of a track's frames: no rotation at the origin, heading reversed
\* (yaw pi) 10 m away, and yaw 73.74 degrees
IdentityPose == Pose(<<0, 0, 0>>, <<5, 0, 0, 0>>)
ReversedPose == Pose(<<1000, 0, 0>>, <<0, 0, 0, 5>>)
TurnedPose == Pose(<<0, 200, 0>>, <<4, 0, 0, 3>>)
TrackPoses == {IdentityPose, ReversedPose, TurnedPose}

\* poses handed to transform_to_world alone: also half a turn about x, and
\* quaternions of norm 2
TransformPoses ==
    TrackPoses \cup { Pose(<<0, 0, 50>>, <<0, 5, 0, 0>>),
                      Pose(<<0, 0, 0>>, <<10, 0, 0, 0>>),
                      Pose(<<100, 0, 0>>, <<0, 0, 0, 10>>),
                      Pose(<<0, 0, 0>>, <<3, 4, 0, 0>>),
                      Pose(<<0, 0, 0>>, <<6, 0, 8, 0>>) }

\* obj.get('translation', [0, 0, 0]) of the samples of a track
TrackPositions ==
    {<<0, 0, 0>>, <<100, 0, 0>>, <<200, 0, 0>>, <<100, 100, 0>>, <<3, 0, 0>>,
     <<15, 0, 0>>}

\* positions handed to transform_to_world alone
TransformPositions == TrackPositions \cup {<<1, 2, 3>>, <<0, 0, 7>>, <<-4, 5, 0>>}

(***************************************************************************)
(* Angles, in microradians                                                 *)
(***************************************************************************)
\* math.pi, to the even microradian: the multiples of pi / 4 are whole
Pi == 3141592

\* math.atan2 on a direction (y, x) in lowest terms, rounded to a microradian,
\* tabulated for the directions the positions and poses of the model produce
Atan2Direction(y, x) ==
    CASE y = -5072 /\ x = -21 -> -1574937
      [] y = -5072 /\ x = 2479 -> -1116180
      [] y = -5072 /\ x = 4979 -> -794651
      [] y = -5072 /\ x = 19979 -> -248614
      [] y = -5072 /\ x = 22479 -> -221917
      [] y = -5072 /\ x = 24979 -> -200327
      [] y = -3028 /\ x = 1721 -> -1053965
      [] y = -2572 /\ x = 2479 -> -803808
      [] y = -2536 /\ x = 27 -> -1560150
      [] y = -2536 /\ x = 177 -> -1501114
      [] y = -2524 /\ x = 7493 -> -324910
      [] y = -1268 /\ x = 6151 -> -203297
      [] y = -1072 /\ x = -21 -> -1590383
      [] y = -1072 /\ x = 479 -> -1150583
      [] y = -1072 /\ x = 979 -> -830711
      [] y = -1072 /\ x = 3979 -> -263166
      [] y = -1072 /\ x = 4479 -> -234920
      [] y = -1072 /\ x = 4979 -> -212067
      [] y = -634 /\ x = 3113 -> -200914
      [] y = -572 /\ x = 479 -> -873655
      [] y = -548 /\ x = 361 -> -988288
      [] y = -536 /\ x = -3 -> -1576393
      [] y = -536 /\ x = 27 -> -1520466
      [] y = -524 /\ x = 1493 -> -337540
      [] y = -422 /\ x = 1229 -> -330755
      [] y = -392 /\ x = -53 -> -1705185
      [] y = -392 /\ x = -41 -> -1675009
      [] y = -392 /\ x = 929 -> -399292
      [] y = -392 /\ x = 941 -> -394716
      [] y = -324 /\ x = 71 -> -1355070
      [] y = -324 /\ x = 83 -> -1320016
      [] y = -322 /\ x = 1229 -> -256242
      [] y = -296 /\ x = -25 -> -1655056
      [] y = -296 /\ x = -13 -> -1614687
      [] y = -296 /\ x = 957 -> -299967
      [] y = -296 /\ x = 969 -> -296467
      [] y = -278 /\ x = 171 -> -1019342
      [] y = -278 /\ x = 1271 -> -215334
      [] y = -268 /\ x = 1241 -> -212689
      [] y = -200 /\ x = 3 -> -1555797
      [] y = -200 /\ x = 997 -> -197974
      [] y = -189 /\ x = 673 -> -273780
      [] y = -161 /\ x = 27 -> -1404641
      [] y = -161 /\ x = 577 -> -272108
      [] y = -139 /\ x = 48 -> -1238293
      [] y = -139 /\ x = 673 -> -203674
      [] y = -134 /\ x = 613 -> -215212
      [] y = -123 /\ x = 211 -> -527780
      [] y = -108 /\ x = 355 -> -295329
      [] y = -100 /\ x = -97 -> -2340967
      [] y = -100 /\ x = 897 -> -111024
      [] y = -99 /\ x = 218 -> -426282
      [] y = -98 /\ x = 11 -> -1459019
      [] y = -98 /\ x = 211 -> -434809
      [] y = -89 /\ x = 48 -> -1076185
      [] y = -81 /\ x = 17 -> -1363922
      [] y = -81 /\ x = 67 -> -879712
      [] y = -81 /\ x = 217 -> -357255
      [] y = -81 /\ x = 242 -> -322990
      [] y = -74 /\ x = -7 -> -1665110
      [] y = -74 /\ x = 43 -> -1044404
      [] y = -74 /\ x = 193 -> -366132
      [] y = -74 /\ x = 243 -> -295605
      [] y = -73 /\ x = 11 -> -1421237
      [] y = -53 /\ x = 121 -> -412844
      [] y = -49 /\ x = 18 -> -1218752
      [] y = -49 /\ x = 93 -> -484921
      [] y = -49 /\ x = 118 -> -393587
      [] y = -46 /\ x = -3 -> -1635921
      [] y = -44 /\ x = -117 -> -2781886
      [] y = -40 /\ x = 3 -> -1495936
      [] y = -40 /\ x = 197 -> -200322
      [] y = -37 /\ x = 9 -> -1332187
      [] y = -37 /\ x = 109 -> -327245
      [] y = -31 /\ x = 17 -> -1069192
      [] y = -27 /\ x = 14 -> -1092444
      [] y = -27 /\ x = 89 -> -294546
      [] y = -24 /\ x = -7 -> -1854590
      [] y = -20 /\ x = -17 -> -2275290
      [] y = -20 /\ x = 177 -> -112517
      [] y = -17 /\ x = -31 -> -2639989
      [] y = -10 /\ x = 3 -> -1279340
      [] y = -10 /\ x = 47 -> -209640
      [] y = -7 /\ x = -1 -> -1712693
      [] y = -7 /\ x = 24 -> -283794
      [] y = -7 /\ x = 25 -> -273009
      [] y = -4 /\ x = 3 -> -927295
      [] y = -4 /\ x = 13 -> -298499
      [] y = -4 /\ x = 25 -> -158655
      [] y = -4 /\ x = 47 -> -84902
      [] y = -2 /\ x = 1 -> -1107149
      [] y = -2 /\ x = 9 -> -218669
      [] y = -2 /\ x = 25 -> -79830
      [] y = -1 /\ x = -1 -> -2356194
      [] y = -1 /\ x = 0 -> -1570796
      [] y = -1 /\ x = 1 -> -785398
      [] y = -1 /\ x = 3 -> -321751
      [] y = -1 /\ x = 4 -> -244979
      [] y = -1 /\ x = 5 -> -197396
      [] y = -1 /\ x = 7 -> -141897
      [] y = -1 /\ x = 8 -> -124355
      [] y = -1 /\ x = 9 -> -110657
      [] y = 0 /\ x = -1 -> 3141592
      [] y = 0 /\ x = 1 -> 0
      [] y = 1 /\ x = -9 -> 3030935
      [] y = 1 /\ x = -8 -> 3017238
      [] y = 1 /\ x = -7 -> 2999696
      [] y = 1 /\ x = -5 -> 2944197
      [] y = 1 /\ x = -4 -> 2896614
      [] y = 1 /\ x = -3 -> 2819842
      [] y = 1 /\ x = -1 -> 2356194
      [] y = 1 /\ x = 0 -> 1570796
      [] y = 1 /\ x = 1 -> 785398
      [] y = 2 /\ x = -25 -> 3061763
      [] y = 2 /\ x = -9 -> 2922924
      [] y = 2 /\ x = -1 -> 2034444
      [] y = 4 /\ x = -47 -> 3056691
      [] y = 4 /\ x = -25 -> 2982937
      [] y = 4 /\ x = -13 -> 2843094
      [] y = 4 /\ x = -3 -> 2214297
      [] y = 7 /\ x = -25 -> 2868584
      [] y = 7 /\ x = -24 -> 2857799
      [] y = 7 /\ x = 1 -> 1428899
      [] y = 10 /\ x = -47 -> 2931953
      [] y = 10 /\ x = -3 -> 1862253
      [] y = 17 /\ x = 31 -> 501604
      [] y = 20 /\ x = -177 -> 3029076
      [] y = 20 /\ x = 17 -> 866302
      [] y = 24 /\ x = 7 -> 1287002
      [] y = 27 /\ x = -89 -> 2847046
      [] y = 27 /\ x = -14 -> 2049149
      [] y = 31 /\ x = -17 -> 2072400
      [] y = 37 /\ x = -109 -> 2814348
      [] y = 37 /\ x = -9 -> 1809406
      [] y = 40 /\ x = -197 -> 2941270
      [] y = 40 /\ x = -3 -> 1645656
      [] y = 44 /\ x = 117 -> 359707
      [] y = 46 /\ x = 3 -> 1505671
      [] y = 49 /\ x = -118 -> 2748006
      [] y = 49 /\ x = -93 -> 2656672
      [] y = 49 /\ x = -18 -> 1922841
      [] y = 53 /\ x = -121 -> 2728749
      [] y = 73 /\ x = -11 -> 1720356
      [] y = 74 /\ x = -243 -> 2845988
      [] y = 74 /\ x = -193 -> 2775461
      [] y = 74 /\ x = -43 -> 2097189
      [] y = 74 /\ x = 7 -> 1476482
      [] y = 81 /\ x = -242 -> 2818603
      [] y = 81 /\ x = -217 -> 2784338
      [] y = 81 /\ x = -67 -> 2261881
      [] y = 81 /\ x = -17 -> 1777670
      [] y = 89 /\ x = -48 -> 2065407
      [] y = 98 /\ x = -211 -> 2706783
      [] y = 98 /\ x = -11 -> 1682573
      [] y = 99 /\ x = -218 -> 2715311
      [] y = 100 /\ x = -897 -> 3030568
      [] y = 100 /\ x = 97 -> 800625
      [] y = 108 /\ x = -355 -> 2846264
      [] y = 123 /\ x = -211 -> 2613813
      [] y = 134 /\ x = -613 -> 2926381
      [] y = 139 /\ x = -673 -> 2937919
      [] y = 139 /\ x = -48 -> 1903299
      [] y = 161 /\ x = -577 -> 2869484
      [] y = 161 /\ x = -27 -> 1736952
      [] y = 189 /\ x = -673 -> 2867813
      [] y = 200 /\ x = -997 -> 2943619
      [] y = 200 /\ x = -3 -> 1585795
      [] y = 268 /\ x = -1241 -> 2928904
      [] y = 278 /\ x = -1271 -> 2926258
      [] y = 278 /\ x = -171 -> 2122251
      [] y = 296 /\ x = -969 -> 2845126
      [] y = 296 /\ x = -957 -> 2841626
      [] y = 296 /\ x = 13 -> 1526906
      [] y = 296 /\ x = 25 -> 1486537
      [] y = 322 /\ x = -1229 -> 2885351
      [] y = 324 /\ x = -83 -> 1821576
      [] y = 324 /\ x = -71 -> 1786522
      [] y = 392 /\ x = -941 -> 2746877
      [] y = 392 /\ x = -929 -> 2742300
      [] y = 392 /\ x = 41 -> 1466583
      [] y = 392 /\ x = 53 -> 1436407
      [] y = 422 /\ x = -1229 -> 2810838
      [] y = 524 /\ x = -1493 -> 2804053
      [] y = 536 /\ x = -27 -> 1621127
      [] y = 536 /\ x = 3 -> 1565199
      [] y = 548 /\ x = -361 -> 2153304
      [] y = 572 /\ x = -479 -> 2267937
      [] y = 634 /\ x = -3113 -> 2940678
      [] y = 1072 /\ x = -4979 -> 2929526
      [] y = 1072 /\ x = -4479 -> 2906673
      [] y = 1072 /\ x = -3979 -> 2878427
      [] y = 1072 /\ x = -979 -> 2310882
      [] y = 1072 /\ x = -479 -> 1991010
      [] y = 1072 /\ x = 21 -> 1551209
      [] y = 1268 /\ x = -6151 -> 2938295
      [] y = 2524 /\ x = -7493 -> 2816682
      [] y = 2536 /\ x = -177 -> 1640478
      [] y = 2536 /\ x = -27 -> 1581443
      [] y = 2572 /\ x = -2479 -> 2337784
      [] y = 3028 /\ x = -1721 -> 2087628
      [] y = 5041 /\ x = -41 -> 1578929
      [] y = 5072 /\ x = -24979 -> 2941266
      [] y = 5072 /\ x = -22479 -> 2919676
      [] y = 5072 /\ x = -19979 -> 2892978
      [] y = 5072 /\ x = -4979 -> 2346942
      [] y = 5072 /\ x = -2479 -> 2025413
      [] y = 5072 /\ x = 21 -> 1566656

Atan2(y, x) ==
    IF x = 0 /\ y = 0 THEN 0
    ELSE LET g == Gcd(Abs(y), Abs(x)) IN Atan2Direction(y \div g, x \div g)

\* the yaw of get_euler_angles(q), q = (w, x, y, z) with components in units
\* of 1 / sqrt(one)
get_euler_yaw(q, one) ==
    LET siny_cosp == 2 * (q[1] * q[4] + q[2] * q[3])
        cosy_cosp == one - 2 * (q[3] * q[3] + q[4] * q[4])
    IN  Atan2(siny_cosp, cosy_cosp)

\* while diff > math.pi: diff -= 2 * math.pi
RECURSIVE WhileAbovePi(_)
WhileAbovePi(diff) == IF diff > Pi THEN WhileAbovePi(diff - 2 * Pi) ELSE diff

\* while diff < -math.pi: diff += 2 * math.pi
RECURSIVE WhileBelowMinusPi(_)
WhileBelowMinusPi(diff) == IF diff < -Pi THEN WhileBelowMinusPi(diff + 2 * Pi) ELSE diff

(***************************************************************************)
(* RuleChecker._estimate_motion_vector and check_motion_alignment          *)
(* A track is a sequence of [k |-> frame id, obj |-> object]; frame_to_ins *)
(* is None or a dict, [kind |-> "dict", items |-> <<[key, value], ...>>].  *)
(***************************************************************************)
StrTruck == <<116, 114, 117, 99, 107>>
StrBus == <<98, 117, 115>>
StrMotorcycle == <<109, 111, 116, 111, 114, 99, 121, 99, 108, 101>>
StrBicycle == <<98, 105, 99, 121, 99, 108, 101>>

\* vehicle_classes
VehicleClasses == <<StrVehicle, StrCar, StrTruck, StrBus, StrMotorcycle, StrBicycle>>

\* any(vc in obj_class for vc in vehicle_classes)
IsVehicle(obj_class) ==
    \E i \in 1..Len(VehicleClasses) : Contains(obj_class, VehicleClasses[i])

\* frame_to_ins.get(key) if frame_to_ins else None
FrameIns(frame_to_ins, key) ==
    IF frame_to_ins.kind = "None" THEN NoResult
    ELSE IF HasKey(frame_to_ins.items, key) THEN Lookup(frame_to_ins.items, key)
    ELSE NoResult

\* the position of the sample at index i (0-based): in world frame when its
\* frame has a pose, as annotated otherwise
SamplePosition(track, i, frame_to_ins) ==
    LET sample == track[i + 1]
        ins == FrameIns(frame_to_ins, sample.k)
    IN  IF ins # NoResult THEN transform_to_world(sample.obj.translation, ins)
        ELSE Untransformed(sample.obj.translation)

\* positions: the anchor, then offsets -1, -2, then offsets +1, +2, each when
\* the index is inside the track
SampledPositions(track, frame_idx, frame_to_ins) ==
    LET At(offset) == SamplePosition(track, frame_idx + offset, frame_to_ins)
    IN  <<At(0)>>
        \o (IF frame_idx - 1 >= 0 THEN <<At(-1)>> ELSE <<>>)
        \o (IF frame_idx - 2 >= 0 THEN <<At(-2)>> ELSE <<>>)
        \o (IF frame_idx + 1 < Len(track) THEN <<At(1)>> ELSE <<>>)
        \o (IF frame_idx + 2 < Len(track) THEN <<At(2)>> ELSE <<>>)

VecSub(a, b) == [i \in 1..3 |-> a[i] - b[i]]

\* the motion vector, or None
estimate_motion_vector(track, frame_idx, frame_to_ins) ==
    IF track = <<>> \/ frame_idx >= Len(track) THEN NoResult
    ELSE
      LET positions == SampledPositions(track, frame_idx, frame_to_ins)
          curr_pos == positions[1]
          \* positions[1] and positions[-1] of the source
          second == positions[2]
          last == positions[Len(positions)]
      IN  IF Len(positions) < 2 THEN NoResult
          ELSE IF frame_idx > 0 /\ frame_idx < Len(track) - 1
          THEN [kind |-> "vector", v |-> VecSub(last, second)]
          ELSE IF frame_idx > 0
          THEN [kind |-> "vector", v |-> VecSub(curr_pos, second)]
          ELSE IF frame_idx < Len(track) - 1
          THEN [kind |-> "vector", v |-> VecSub(last, curr_pos)]
          ELSE NoResult

\* 1.0 as a component of an object's rotation (hundredths), squared
RotOne == 10000

\* the minimum of the static regime applied in every regime
MinMotionThresholdUniform(motion_state) == 5

\* the thresholds of a regime: min_motion_threshold in cm, angle_tolerance
MinMotionThreshold(motion_state) ==
    CASE motion_state = "static" -> 5
      [] motion_state = "low_speed" -> 10
      [] OTHER -> 20

RegimeTolerance(motion_state) ==
    CASE motion_state = "static" -> (AngleTolerance * 3) \div 2
      [] motion_state = "low_speed" -> AngleTolerance
      [] OTHER -> (AngleTolerance * 4) \div 5

\* the heading comparison of lines 386-433, for a motion vector of
\* sufficient length
HeadingIssues(obj, motion_vec, motion_speed, motion_state, curr_ins) ==
    LET angle_tolerance == RegimeTolerance(motion_state)
        motion_yaw_world == Atan2(motion_vec[2], motion_vec[1])
        obj_yaw_ego == get_euler_yaw(obj.rotation, RotOne)
        obj_yaw_world ==
            IF curr_ins # NoResult
            THEN get_euler_yaw(EgoQuat(curr_ins), MatOne) + obj_yaw_ego
            ELSE obj_yaw_ego
        diff == Abs(WhileBelowMinusPi(WhileAbovePi(motion_yaw_world - obj_yaw_world)))
        is_forward == diff < angle_tolerance
        is_backward == Abs(diff - Pi) < angle_tolerance
    IN  IF Len(obj.rotation) # 4 THEN <<>>
        ELSE IF ~is_forward /\ ~is_backward
        THEN <<[issue |-> "heading_inconsistent", state |-> motion_state, diff |-> diff]>>
        ELSE IF is_backward /\ SurdGreater(motion_speed, StaticThreshold)
        THEN <<[issue |-> "reverse_motion", state |-> motion_state, diff |-> diff]>>
        ELSE <<>>

\* curr_ins of check_motion_alignment: the pose is looked up under the index
\* in the track
AlignmentIns(frame_idx, frame_to_ins) == FrameIns(frame_to_ins, PyInt(frame_idx))

check_motion_alignment(obj, track, frame_idx, frame_to_ins) ==
    IF ~IsVehicle(Lower(obj.Class)) THEN <<>>
    ELSE
      LET curr_ins == AlignmentIns(frame_idx, frame_to_ins)
          estimate == estimate_motion_vector(track, frame_idx, frame_to_ins)
      IN  IF estimate = NoResult THEN <<>>
          ELSE
            LET motion_vec == estimate.v
                d2 == motion_vec[1] * motion_vec[1] + motion_vec[2] * motion_vec[2]
                \* dist in cm, motion_speed = dist / 0.1 in cm/s
                dist == Surd(d2, MatOne)
                motion_speed == Surd(4 * d2, QuatOne)
                motion_state == classify_motion_state(motion_speed)
            IN  IF SurdLess(dist, MinMotionThreshold(motion_state)) THEN <<>>
                ELSE HeadingIssues(obj, motion_vec, motion_speed, motion_state, curr_ins)

(***************************************************************************)
(* RuleChecker.check_trajectory_consistency                                *)
(* Timestamps are in ticks of 100 ms (1e8 ns); a speed is the exact value  *)
(* 10 * distance / ticks, in 25ths of a centimetre per second.             *)
(***************************************************************************)
\* the largest r with r * r <= n
RECURSIVE SqrtBetween(_, _, _)
SqrtBetween(n, lo, hi) ==
    IF lo = hi THEN lo
    ELSE LET mid == (lo + hi + 1) \div 2
         IN  IF mid * mid <= n THEN SqrtBetween(n, mid, hi) ELSE SqrtBetween(n, lo, mid - 1)

\* np.linalg.norm of a vector whose squared length is n; the distances
\* between the positions of the trajectory inputs are whole
Norm(n) == SqrtBetween(n, 0, 46340)

\* obj.get('timestamp', frame_idx * 100000000): the default of an integer
\* frame id is a time, the default of a str frame id is a (repeated) str
TimestampOf(sample) ==
    IF sample.obj.timestamp # Missing THEN sample.obj.timestamp ELSE sample.k

\* pos_world of every sample: transformed when frame_idx is in frame_to_ins
TrajectoryPositionsOf(track, frame_to_ins) ==
    [i \in 1..Len(track) |-> SamplePosition(track, i - 1, frame_to_ins)]

PlanarSquared(a, b) ==
    (a[1] - b[1]) * (a[1] - b[1]) + (a[2] - b[2]) * (a[2] - b[2])

SpatialSquared(a, b) == PlanarSquared(a, b) + (a[3] - b[3]) * (a[3] - b[3])

\* the speed, in cm/s, of a displacement of squared length d2 in ticks
SpeedOf(d2, ticks) == Surd(4 * d2, QuatOne * ticks)

\* velocities: one entry per interval i (between samples i and i + 1) whose
\* dt is positive, as [d2, ticks] of that interval
Velocities(positions, ticks) ==
    LET moving == SelectSeq([i \in 1..(Len(positions) - 1) |-> i],
                            LAMBDA i : ticks[i + 1] - ticks[i] > 0)
    IN  [j \in 1..Len(moving) |->
            [d2 |-> PlanarSquared(positions[moving[j] + 1], positions[moving[j]]),
             ticks |-> ticks[moving[j] + 1] - ticks[moving[j]]]]

\* 1. abs(acc) > max_reasonable_acc, acc = (velocities[i] - velocities[i-1]) / dt
\* with dt taken between the timestamps i and i + 1 (0-based): the issues of
\* speed_changes, numbered from 1
AccelerationIssues(velocities, ticks) ==
    LET counted == SelectSeq([i \in 1..(Len(velocities) - 1) |-> i],
                             LAMBDA i : ticks[i + 2] - ticks[i + 1] > 0)
        Exceeds(i) ==
            LET v == velocities[i + 1]
                u == velocities[i]
                dt == ticks[i + 2] - ticks[i + 1]
                \* |v - u| in cm/s is |2 a / (5 b) - 2 c / (5 d)|; acc > 3.0 m/s^2
                a == Norm(v.d2)
                b == v.ticks
                c == Norm(u.d2)
                d == u.ticks
            IN  4 * Abs(a * d - c * b) > 300 * dt * b * d
    IN  IF Len(velocities) > 1
        THEN [j \in 1..Len(SelectSeq([k \in 1..Len(counted) |-> k],
                                     LAMBDA k : Exceeds(counted[k]))) |->
                [issue |-> "acceleration",
                 index |-> SelectSeq([k \in 1..Len(counted) |-> k],
                                     LAMBDA k : Exceeds(counted[k]))[j]]]
        ELSE <<>>

\* 2. state_transitions > len(velocities) * 0.6
StateSwitchingIssues(velocities) ==
    LET motion_states == [j \in 1..Len(velocities) |->
                            classify_motion_state(SpeedOf(velocities[j].d2, velocities[j].ticks))]
        state_transitions ==
            Cardinality({j \in 2..Len(velocities) : motion_states[j] # motion_states[j - 1]})
    IN  IF 5 * state_transitions > 3 * Len(velocities)
        THEN <<[issue |-> "state_switching", index |-> state_transitions]>>
        ELSE <<>>

\* 3. per interval i (1-based as in the source) with positive dt:
\* speed > 8.0 m/s, then a jump of more than 0.5 m when velocities[i-1] is static
RECURSIVE ContinuityIssues(_, _, _, _)
ContinuityIssues(positions, ticks, velocities, i) ==
    IF i > Len(positions) - 1 THEN <<>>
    ELSE
      LET d3 == SpatialSquared(positions[i + 1], positions[i])
          dt == ticks[i + 1] - ticks[i]
          speeding == SurdGreater(SpeedOf(d3, dt), 800)
          jumping ==
              /\ i < Len(velocities)
              /\ SurdLess(SpeedOf(velocities[i].d2, velocities[i].ticks), StaticThreshold)
              /\ SurdGreater(Surd(d3, MatOne), 50)
      IN  (IF dt > 0 /\ speeding THEN <<[issue |-> "discontinuous", index |-> i]>> ELSE <<>>)
          \o (IF dt > 0 /\ jumping THEN <<[issue |-> "static_jump", index |-> i]>> ELSE <<>>)
          \o ContinuityIssues(positions, ticks, velocities, i + 1)

\* angle_diff > math.pi / 2 on a turn of exactly a right angle is decided by
\* the rounding of the float positions: the turns (the two displacements, in
\* 25ths of a cm) of the model's positions and poses on which the float
\* difference of the directions exceeds math.pi / 2. The one turn is from -y
\* to +x of the ego frame under the pose of yaw 73.74 degrees.
FloatSharpRightTurns == { << <<1920, -560>>, <<420, 1440>> >> }

\* 4. with more than 2 velocities: the directions of the displacements longer
\* than 0.01 m, and a turn of more than pi / 2 between successive ones
DirectionIssues(positions, velocities) ==
    LET long == SelectSeq([i \in 1..(Len(positions) - 1) |-> i],
                          LAMBDA i : SurdGreater(Surd(PlanarSquared(positions[i + 1],
                                                                    positions[i]), MatOne), 1))
        directions == [j \in 1..Len(long) |->
                         Atan2(positions[long[j] + 1][2] - positions[long[j]][2],
                               positions[long[j] + 1][1] - positions[long[j]][1])]
        Turn(j) ==
            LET angle_diff == Abs(directions[j + 1] - directions[j])
            IN  IF angle_diff < 2 * Pi - angle_diff THEN angle_diff ELSE 2 * Pi - angle_diff
        Displacement(j) ==
            <<positions[long[j] + 1][1] - positions[long[j]][1],
              positions[long[j] + 1][2] - positions[long[j]][2]>>
        RightAngle(j) ==
            Displacement(j)[1] * Displacement(j + 1)[1]
                + Displacement(j)[2] * Displacement(j + 1)[2] = 0
        sharp == SelectSeq([j \in 1..(Len(directions) - 1) |-> j],
                           LAMBDA j : IF RightAngle(j)
                                      THEN <<Displacement(j), Displacement(j + 1)>>
                                               \in FloatSharpRightTurns
                                      ELSE Turn(j) > Pi \div 2)
    IN  IF Len(velocities) > 2
        THEN [n \in 1..Len(sharp) |->
                [issue |-> "direction_change", index |-> sharp[n]]]
        ELSE <<>>

\* the issue list, or the TypeError of subtracting timestamps that are str
check_trajectory_consistency(track, frame_to_ins) ==
    IF Len(track) < MinTrackLength THEN Returned(<<>>)
    ELSE
      LET positions == TrajectoryPositionsOf(track, frame_to_ins)
          timestamps == [i \in 1..Len(track) |-> TimestampOf(track[i])]
      IN  IF \E i \in 1..Len(track) : timestamps[i].t = "str"
          THEN Raised("TypeError", 191)
          ELSE
            LET ticks == [i \in 1..Len(track) |-> timestamps[i].v[1]]
                velocities == Velocities(positions, ticks)
            IN  Returned(AccelerationIssues(velocities, ticks)
                         \o StateSwitchingIssues(velocities)
                         \o ContinuityIssues(positions, ticks, velocities, 1)
                         \o DirectionIssues(positions, velocities))

(***************************************************************************)
(* SpecMotion: the coordinate transform and the motion validators called   *)
(* on a constructed RuleChecker                                            *)
(***************************************************************************)
\* Bounds: longest track handed to check_motion_alignment, and longest track
\* handed to check_trajectory_consistency
MaxTrack == 3
MaxTrajectory == 5

\* class labels of tracked objects: a vehicle-like one and one that is not
MotionClasses == {StrCar, StrPedestrian}

\* rotations (hundredths) of tracked objects: absent, yaw 0, yaw pi, and yaw
\* 90.5 degrees
MotionRotations == {<<>>, <<100, 0, 0, 0>>, <<0, 0, 0, 100>>, <<71, 0, 0, 71>>}

\* the frame identifiers of a track's samples: the index in the track, an
\* integer frame number that is not the index, or the key of a JSON catalog
FrameIdKinds == {"index", "number", "key"}

FrameIdOf(kind, i) ==
    CASE kind = "index" -> PyInt(i - 1)
      [] kind = "number" -> PyInt(i + 4)
      [] OTHER -> PyStr(<<47 + i>>)

\* the track of one object seen at the given positions
TrackOf(class, rotation, kind, positions) ==
    [i \in 1..Len(positions) |->
        [k |-> FrameIdOf(kind, i),
         obj |-> [Class |-> class, rotation |-> rotation, translation |-> positions[i],
                  timestamp |-> Missing]]]

\* frame_to_ins: None, or the same pose for every frame of the track
FrameToInsOf(track, pose) ==
    IF pose = NoResult THEN NoResult
    ELSE [kind |-> "dict",
          items |-> [i \in 1..Len(track) |-> [key |-> track[i].k, value |-> pose]]]

\* frame_to_ins with the pose of one frame of the track missing (missing = 0:
\* of none)
FrameToInsWithout(track, pose, missing) ==
    IF pose = NoResult THEN NoResult
    ELSE [kind |-> "dict",
          items |-> SelectSeq(FrameToInsOf(track, pose).items,
                              LAMBDA item : missing = 0 \/ item.key # track[missing].k)]

\* the object handed to check_motion_alignment with frame_idx: the sample at
\* that index, or a lone object when the index is past the track
AnchorObject(track, frame_idx, class, rotation) ==
    IF frame_idx < Len(track) THEN track[frame_idx + 1].obj
    ELSE [Class |-> class, rotation |-> rotation, translation |-> <<0, 0, 0>>,
          timestamp |-> Missing]

\* positions of the samples of a trajectory: the corners of a right triangle
\* of 0.6 m by 0.8 m, and a point 0.6 m above the first corner
TrajectoryPositions == {<<0, 0, 0>>, <<60, 0, 0>>, <<0, 80, 0>>, <<0, 0, 60>>}

\* the 'timestamp' of the samples: absent, one second apart, or 100 ms apart
\* with the first two equal
StampKinds == {"absent", "second", "repeated"}

StampOf(kind, i) ==
    CASE kind = "absent" -> Missing
      [] kind = "second" -> PyInt(10 * (i - 1))
      [] OTHER -> PyInt(IF i = 1 THEN 0 ELSE i - 2)

TrajectoryOf(kind, stamps, positions) ==
    [i \in 1..Len(positions) |->
        [k |-> FrameIdOf(kind, i),
         obj |-> [Class |-> StrCar, rotation |-> <<100, 0, 0, 0>>,
                  translation |-> positions[i], timestamp |-> StampOf(stamps, i)]]]

\* process_all is not running, no pose is queried, the rules are complete
InitMotion ==
    /\ ins_data = <<>>
    /\ ins_index = <<>>
    /\ pose_call = [op |-> "none", timestamp |-> 0]
    /\ pose_result = NoResult
    /\ BatchIdle
    /\ self_rules = DefaultRules
    /\ self_thresholds = Thresholds
    /\ rule_call = [op |-> "__init__", config |-> [rules |-> DefaultRules]]
    /\ rule_result = Returned(DefaultRules)
    /\ rule_log = <<>>

TransformToWorld ==
    /\ pc = "idle"
    /\ Constructed
    /\ \E pos_ego \in TransformPositions, ins_entry \in TransformPoses :
        /\ rule_call' = [op |-> "transform_to_world", pos_ego |-> pos_ego,
                         ins_entry |-> ins_entry]
        /\ rule_result' = Returned(transform_to_world(pos_ego, ins_entry))
    /\ UNCHANGED <<self_rules, self_thresholds, rule_log>>
    /\ UNCHANGED pose_vars
    /\ UNCHANGED batch_vars

CheckMotionAlignment ==
    /\ pc = "idle"
    /\ Constructed
    /\ \E class \in MotionClasses, rotation \in MotionRotations, kind \in FrameIdKinds,
          positions \in SeqsUpTo(TrackPositions, MaxTrack),
          pose \in TrackPoses \cup {NoResult} :
        LET track == TrackOf(class, rotation, kind, positions)
            frame_to_ins == FrameToInsOf(track, pose)
        IN  \E frame_idx \in 0..Len(track) :
              /\ rule_call' = [op |-> "check_motion_alignment",
                               obj |-> AnchorObject(track, frame_idx, class, rotation),
                               track |-> track, frame_idx |-> frame_idx,
                               frame_to_ins |-> frame_to_ins]
              /\ rule_result' =
                    Returned(check_motion_alignment(
                        AnchorObject(track, frame_idx, class, rotation),
                        track, frame_idx, frame_to_ins))
    /\ UNCHANGED <<self_rules, self_thresholds, rule_log>>
    /\ UNCHANGED pose_vars
    /\ UNCHANGED batch_vars

EstimateMotionVector ==
    /\ pc = "idle"
    /\ Constructed
    /\ \E kind \in FrameIdKinds, positions \in SeqsUpTo(TrackPositions, MaxTrack),
          pose \in TrackPoses \cup {NoResult} :
        LET track == TrackOf(StrCar, <<100, 0, 0, 0>>, kind, positions)
        IN  \E frame_idx \in 0..Len(track),
               missing \in IF pose = NoResult THEN {0} ELSE 0..Len(track) :
            LET frame_to_ins == FrameToInsWithout(track, pose, missing)
            IN
              /\ rule_call' = [op |-> "_estimate_motion_vector", track |-> track,
                               frame_idx |-> frame_idx, frame_to_ins |-> frame_to_ins]
              /\ rule_result' =
                    Returned(estimate_motion_vector(track, frame_idx, frame_to_ins))
    /\ UNCHANGED <<self_rules, self_thresholds, rule_log>>
    /\ UNCHANGED pose_vars
    /\ UNCHANGED batch_vars

CheckTrajectoryConsistency ==
    /\ pc = "idle"
    /\ Constructed
    /\ \E kind \in FrameIdKinds, stamps \in StampKinds,
          positions \in SeqsUpTo(TrajectoryPositions, MaxTrajectory),
          pose \in TrackPoses \cup {NoResult} :
        LET track == TrajectoryOf(kind, stamps, positions)
            frame_to_ins == FrameToInsOf(track, pose)
        IN  /\ rule_call' = [op |-> "check_trajectory_consistency",
                             track |-> track, frame_to_ins |-> frame_to_ins]
            /\ rule_result' = check_trajectory_consistency(track, frame_to_ins)
    /\ UNCHANGED <<self_rules, self_thresholds, rule_log>>
    /\ UNCHANGED pose_vars
    /\ UNCHANGED batch_vars

NextMotion ==
    \/ TransformToWorld
    \/ EstimateMotionVector
    \/ CheckMotionAlignment
    \/ CheckTrajectoryConsistency

SpecMotion == InitMotion /\ [][NextMotion]_vars

(***************************************************************************)
(* SpecFrame: the validators called repeatedly, in any order, on the        *)
(* objects of tracks held in memory                                        *)
(***************************************************************************)
\* Bound: most validator calls in a run
MaxCalls == 3

\* one annotated object with every key the validators read
FrameObject(class, size, rotation, num_pts, position, stamp) ==
    [Class |-> class, size |-> size, rotation |-> rotation, num_lidar_pts |-> num_pts,
     translation |-> position, timestamp |-> stamp]

\* tracks as process_all builds them, instance_token -> list of (frame_id, obj):
\* "A", a vehicle too short, too low, with too few points, driving 1 m per
\* frame along x while heading along y; "B", a car that stands and then moves
FrameTracks(kind) ==
    << [key |-> "A",
        value |-> [i \in 1..3 |->
            [k |-> FrameIdOf(kind, i),
             obj |-> FrameObject(StrVehicle, <<149, 100, 99>>, <<71, 0, 0, 71>>, 4,
                                 <<100 * (i - 1), 0, 0>>, Missing)]]],
       [key |-> "B",
        value |-> [i \in 1..3 |->
            [k |-> FrameIdOf(kind, i),
             obj |-> FrameObject(StrCar, <<>>, <<100, 0, 0, 0>>, 6,
                                 <<(IF i = 3 THEN 100 ELSE 0), 0, 0>>,
                                 StampOf("second", i))]]] >>

\* the pose log of the checker: none, or one pose per frame of an ego vehicle
\* that stands, heading reversed
FrameLogs ==
    { <<>>,
      [i \in 1..3 |-> [timestamp_nanosec |-> i * 100000000] @@ ReversedPose] }

\* frame_to_ins as process_all fills it: the i-th frame id -> the i-th entry
\* of the log; without a log it stays empty, which is falsy like None
FrameToInsFrom(track, data) ==
    IF data = <<>> THEN NoResult
    ELSE [kind |-> "dict",
          items |-> [i \in 1..(IF Len(track) < Len(data) THEN Len(track) ELSE Len(data)) |->
                        [key |-> track[i].k, value |-> data[i]]]]

\* a checker constructed on a pose log, tracks in memory, no validator called
InitFrame ==
    /\ ins_data \in FrameLogs
    /\ ins_index = build_ins_index(ins_data)
    /\ pose_call = [op |-> "none", timestamp |-> 0]
    /\ pose_result = NoResult
    /\ cached_data = [kind |-> "dict", frames |-> <<>>]
    /\ pc = "idle"
    /\ tracks \in {FrameTracks(kind) : kind \in {"index", "key"}}
    /\ frame_ids = <<>>
    /\ frame_cursor = 0
    /\ checked = {}
    /\ motion_calls = {}
    /\ issues_by_frame = <<>>
    /\ report = NoResult
    /\ raised = NoException
    /\ self_rules = DefaultRules
    /\ self_thresholds = Thresholds
    /\ rule_call = [op |-> "__init__", config |-> [rules |-> DefaultRules]]
    /\ rule_result = Returned(DefaultRules)
    /\ rule_log = <<>>

\* tracks are in memory and the run may make another call. The actions bind
\* the arguments of a call, read from the tracks, before the validator is
\* applied to them.
FrameReady == pc = "idle" /\ tracks # <<>> /\ Len(rule_log) < MaxCalls

\* one entry of the log: the call by the references it was handed (the track
\* t, the index frame_idx in it, -1 for a whole track) and what it returned
LogEntry(op, t, frame_idx, result) ==
    [op |-> op, track |-> t, frame_idx |-> frame_idx, result |-> result]

\* obj.pop('num_lidar_pts', 0) in place of obj.get: the key leaves the object
CheckObjectOnTrackPopping ==
    /\ FrameReady
    /\ \E t \in 1..Len(tracks) : \E i \in 1..Len(tracks[t].value) :
        \E obj \in {tracks[t].value[i].obj} :
          \E result \in {check_object_call(obj, self_rules)} :
            /\ rule_call' = [op |-> "check_object", obj |-> obj]
            /\ rule_result' = result
            /\ rule_log' = Append(rule_log, LogEntry("check_object", t, i - 1, result))
            /\ tracks' = [tracks EXCEPT ![t].value[i].obj.num_lidar_pts = 0]
    /\ UNCHANGED <<self_rules, self_thresholds>>
    /\ UNCHANGED pose_vars
    /\ UNCHANGED <<cached_data, pc, frame_ids, frame_cursor, checked,
                   motion_calls, issues_by_frame, report, raised>>

\* check_object(obj) on an object of a track
CheckObjectOnTrack ==
    /\ FrameReady
    /\ \E t \in 1..Len(tracks) : \E i \in 1..Len(tracks[t].value) :
        \E obj \in {tracks[t].value[i].obj} :
          \E result \in {check_object_call(obj, self_rules)} :
            /\ rule_call' = [op |-> "check_object", obj |-> obj]
            /\ rule_result' = result
            /\ rule_log' = Append(rule_log, LogEntry("check_object", t, i - 1, result))
    /\ UNCHANGED <<self_rules, self_thresholds>>
    /\ UNCHANGED pose_vars
    /\ UNCHANGED batch_vars

\* check_motion_alignment(obj, track, frame_idx, frame_to_ins) on an object of
\* a track, at its index in the track
CheckMotionAlignmentOnTrack ==
    /\ FrameReady
    /\ \E t \in 1..Len(tracks) : \E i \in 1..Len(tracks[t].value) :
        \E track \in {tracks[t].value} :
          \E obj \in {track[i].obj}, frame_to_ins \in {FrameToInsFrom(track, ins_data)} :
          \E result \in {Returned(check_motion_alignment(obj, track, i - 1, frame_to_ins))} :
            /\ rule_call' = [op |-> "check_motion_alignment", obj |-> obj,
                             track |-> track, frame_idx |-> i - 1,
                             frame_to_ins |-> frame_to_ins]
            /\ rule_result' = result
            /\ rule_log' = Append(rule_log,
                                  LogEntry("check_motion_alignment", t, i - 1, result))
    /\ UNCHANGED <<self_rules, self_thresholds>>
    /\ UNCHANGED pose_vars
    /\ UNCHANGED batch_vars

\* check_trajectory_consistency(track, frame_to_ins) on a track
CheckTrajectoryConsistencyOnTrack ==
    /\ FrameReady
    /\ \E t \in 1..Len(tracks) :
        \E track \in {tracks[t].value} :
          \E frame_to_ins \in {FrameToInsFrom(track, ins_data)} :
          \E result \in {check_trajectory_consistency(track, frame_to_ins)} :
            /\ rule_call' = [op |-> "check_trajectory_consistency",
                             track |-> track, frame_to_ins |-> frame_to_ins]
            /\ rule_result' = result
            /\ rule_log' = Append(rule_log,
                                  LogEntry("check_trajectory_consistency", t, -1, result))
    /\ UNCHANGED <<self_rules, self_thresholds>>
    /\ UNCHANGED pose_vars
    /\ UNCHANGED batch_vars

NextFrame ==
    \/ CheckObjectOnTrack
    \/ CheckMotionAlignmentOnTrack
    \/ CheckTrajectoryConsistencyOnTrack

SpecFrame == InitFrame /\ [][NextFrame]_vars

(***************************************************************************)
(* The whole program: a checker queried for poses, or a batch run          *)
(***************************************************************************)
Init == InitPose \/ InitBatch \/ InitRules \/ InitMotion \/ InitFrame

Next == NextPose \/ NextBatch \/ NextRules \/ NextMotion \/ NextFrame

Spec == Init /\ [][Next]_vars

(***************************************************************************)
(* Properties of pose resolution                                           *)
(***************************************************************************)

\* equality of rationals <<n, d>>, d > 0, by their reduced forms
Reduced(r) ==
    LET g == Gcd(Abs(r[1]), r[2]) IN <<r[1] \div g, r[2] \div g>>

RatEq(r, q) == Reduced(r) = Reduced(q)

DistinctTimestamps(data) ==
    \A i, j \in 1..Len(data) :
        data[i].timestamp_nanosec = data[j].timestamp_nanosec => i = j

LogTimes(data) == {data[i].timestamp_nanosec : i \in 1..Len(data)}

\* e1, e2 are consecutive entries of the log (in time) around t
Brackets(data, e1, e2, t) ==
    /\ e1 \in Range(data) /\ e2 \in Range(data)
    /\ e1.timestamp_nanosec < t /\ t < e2.timestamp_nanosec
    /\ \A k \in LogTimes(data) :
          ~(e1.timestamp_nanosec < k /\ k < e2.timestamp_nanosec)

Pose0 == [utm |-> <<0, 0, 0>>, quat |-> <<1, 0, 0, 0>>]
Pose1 == [utm |-> <<1, 0, 0>>, quat |-> <<0, 0, 0, 1>>]
EntryAt(t, p) == [timestamp_nanosec |-> t, utm |-> p.utm, quat |-> p.quat]

\* C1: for distinct non-negative timestamps (0 included) and a target strictly
\* between two consecutive entries t1 < t < t2 both within 100 ms of it,
\* get_ins_interpolated returns p1 + (t - t1)/(t2 - t1) * (p2 - p1) on each
\* position axis and the target timestamp; poses at 0 ([0,0,0]) and 100 ms
\* ([1,0,0]) give [0.5,0,0] at 50 ms and no result at 300 ms.
C1_InterpolatesBetweenBrackets ==
    (pose_call.op = "get_ins_interpolated" /\ DistinctTimestamps(ins_data)) =>
      LET t == pose_call.timestamp IN
      /\ \A e1, e2 \in Range(ins_data) :
            ( /\ Brackets(ins_data, e1, e2, t)
              /\ t - e1.timestamp_nanosec <= PoseTolerance
              /\ e2.timestamp_nanosec - t <= PoseTolerance )
            => /\ pose_result.kind = "interpolated"
               /\ pose_result.timestamp_nanosec = t
               /\ \A a \in 1..3 :
                     RatEq(pose_result.utm[a],
                           <<e1.utm[a] * (e2.timestamp_nanosec - e1.timestamp_nanosec)
                               + (t - e1.timestamp_nanosec) * (e2.utm[a] - e1.utm[a]),
                             e2.timestamp_nanosec - e1.timestamp_nanosec>>)
      /\ (ins_data = <<EntryAt(0, Pose0), EntryAt(100000000, Pose1)>> /\ t = 50000000)
            => /\ pose_result.kind = "interpolated"
               /\ RatEq(pose_result.utm[1], <<1, 2>>)
               /\ RatEq(pose_result.utm[2], <<0, 1>>)
               /\ RatEq(pose_result.utm[3], <<0, 1>>)
      /\ (ins_data = <<EntryAt(0, Pose0), EntryAt(100000000, Pose1)>> /\ t = 300000000)
            => pose_result = NoResult

\* C2: with distinct timestamps (0 included), querying either resolver with
\* exactly the timestamp of a log entry returns that entry, unmodified.
C2_ExactMatchReturnsEntry ==
    (pose_call.op \in {"get_ins_by_timestamp", "get_ins_interpolated"}
        /\ DistinctTimestamps(ins_data)) =>
      \A e \in Range(ins_data) :
          e.timestamp_nanosec = pose_call.timestamp
            => pose_result = [kind |-> "entry", entry |-> e]

\* C3: without an exact match, get_ins_by_timestamp returns an entry of
\* minimal absolute time difference over the whole log when that minimum is
\* at most 100 ms (exactly 100 ms accepted), no result otherwise, and no
\* result on an empty log.
C3_NearestWithinTolerance ==
    (pose_call.op = "get_ins_by_timestamp"
        /\ pose_call.timestamp \notin LogTimes(ins_data)) =>
      LET t == pose_call.timestamp
          dists == {Abs(k - t) : k \in LogTimes(ins_data)}
      IN  IF ins_data = <<>> THEN pose_result = NoResult
          ELSE IF SetMin(dists) <= PoseTolerance
          THEN /\ pose_result.kind = "entry"
               /\ pose_result.entry \in Range(ins_data)
               /\ Abs(pose_result.entry.timestamp_nanosec - t) = SetMin(dists)
          ELSE pose_result = NoResult

\* C4: without an exact match, get_ins_interpolated never uses an entry more
\* than 100 ms away: with the latest earlier and the earliest later entry as
\* brackets it returns no result if either is more than 100 ms from the
\* target, and with entries on one side only it returns the nearest of them
\* if within 100 ms and no result otherwise.
C4_InterpolatedBracketTolerance ==
    (pose_call.op = "get_ins_interpolated"
        /\ pose_call.timestamp \notin LogTimes(ins_data)) =>
      LET t == pose_call.timestamp
          before == {k \in LogTimes(ins_data) : k < t}
          after  == {k \in LogTimes(ins_data) : k > t}
          OneSided(k) ==
              IF Abs(k - t) <= PoseTolerance
              THEN /\ pose_result.kind = "entry"
                   /\ pose_result.entry \in Range(ins_data)
                   /\ pose_result.entry.timestamp_nanosec = k
              ELSE pose_result = NoResult
      IN  /\ pose_result.kind = "entry"
                => Abs(pose_result.entry.timestamp_nanosec - t) <= PoseTolerance
          /\ (before # {} /\ after # {}
                /\ (t - SetMax(before) > PoseTolerance \/ SetMin(after) - t > PoseTolerance))
                => pose_result = NoResult
          /\ (before = {} /\ after # {}) => OneSided(SetMin(after))
          /\ (before # {} /\ after = {}) => OneSided(SetMax(before))

\* C5: for two logs that are permutations of each other (distinct
\* timestamps) and any target, get_ins_by_timestamp returns the same pose for
\* both and get_ins_interpolated returns the same pose for both.
C5_OrderIndependent ==
    DistinctTimestamps(ins_data) =>
      \A other \in SeqPermutations(ins_data) :
          /\ pose_call.op = "get_ins_by_timestamp"
                => get_ins_by_timestamp(build_ins_index(other), pose_call.timestamp)
                     = pose_result
          /\ pose_call.op = "get_ins_interpolated"
                => get_ins_interpolated(build_ins_index(other), pose_call.timestamp)
                     = pose_result

(***************************************************************************)
(* Properties of track construction and of the per-frame loop              *)
(***************************************************************************)
\* str(n) for n >= 0
RECURSIVE DigitsOf(_)
DigitsOf(n) == IF n < 10 THEN <<48 + n>> ELSE Append(DigitsOf(n \div 10), 48 + (n % 10))

StrOf(x) == IF x.t = "int" THEN DigitsOf(x.v[1]) ELSE x.v

\* position of an object in the encounter order of the catalog
EncounterPos(ref) ==
    LET enc == Encountered(cached_data)
    IN  CHOOSE i \in 1..Len(enc) : enc[i].ref.pos = ref.pos

\* a precedes b in ascending frame order: numerically when every identifier
\* of the track is integer-like, lexicographically otherwise; equal
\* identifiers in encounter order
FramePrecedes(track, a, b) ==
    IF \A m \in 1..Len(track) : IntLike(track[m].k)
    THEN \/ ToInt(a.k) < ToInt(b.k)
         \/ ToInt(a.k) = ToInt(b.k) /\ EncounterPos(a.ref) < EncounterPos(b.ref)
    ELSE \/ StrLess(StrOf(a.k), StrOf(b.k))
         \/ StrOf(a.k) = StrOf(b.k) /\ EncounterPos(a.ref) < EncounterPos(b.ref)

TrackFrameIds(track) == [i \in 1..Len(track) |-> track[i].k]

\* the catalog {"2": [a], "0": [a], "1": [a]} with every object in track "A"
IsExampleCatalog ==
    /\ cached_data.kind = "dict"
    /\ Len(cached_data.frames) = 3
    /\ [f \in 1..3 |-> cached_data.frames[f].frame_id]
          = <<PyStr(Str2), PyStr(Str0), PyStr(Str1)>>
    /\ \A f \in 1..3 :
          /\ Len(cached_data.frames[f].objs) = 1
          /\ cached_data.frames[f].objs[1].instance_token = "A"

\* C6: process_all orders every track ascending by frame identifier,
\* numerically when all identifiers are integer-like ("2" before "10"; frames
\* "2","0","1" give the track 0,1,2), lexicographically otherwise, with equal
\* identifiers in encounter order.
C6_TracksOrderedByFrame ==
    pc = "frames" =>
      /\ \A n \in 1..Len(tracks) :
            LET track == tracks[n].value
            IN  \A i, j \in 1..Len(track) :
                    i < j => FramePrecedes(track, track[i], track[j])
      /\ IsExampleCatalog
            => TrackFrameIds(Lookup(tracks, "A"))
                  = <<PyStr(Str0), PyStr(Str1), PyStr(Str2)>>

\* C7: track construction never raises, whatever the frame identifiers are
\* (integers and strings together, non-numeric strings, the default of a
\* missing frame_id): every track is still built.
C7_TrackConstructionNeverRaises ==
    /\ ~(raised.exc # "none" /\ raised.line = 119)
    /\ pc \notin {"idle", "start"}
          => \A e \in Range(Encountered(cached_data)) :
                HasInstance(e.obj) => HasKey(tracks, e.obj.instance_token)

\* C8: in every track built by process_all no two entries have the same
\* frame identifier.
C8_OneEntryPerFrame ==
    pc = "frames" =>
      \A n \in 1..Len(tracks) :
          LET track == tracks[n].value
          IN  \A i, j \in 1..Len(track) :
                  i # j => ~PyEq(track[i].k, track[j].k)

TracksHolding(ref) ==
    {<<n, i>> \in (1..Len(tracks)) \X (1..MaxObjs) :
        i <= Len(tracks[n].value) /\ tracks[n].value[i].ref = ref}

ObjectAt(ref) ==
    LET enc == Encountered(cached_data)
    IN  enc[CHOOSE i \in 1..Len(enc) : enc[i].ref.pos = ref.pos].obj

\* the issue list of the object was written to the report
Reported(e) ==
    /\ report.kind = "written"
    /\ \E f \in 1..Len(report.issues) :
          \E k \in 1..Len(report.issues[f].frame_issues) :
              /\ report.issues[f].frame_issues[k].ref.pos = e.ref.pos
              /\ report.issues[f].frame_issues[k].issues = check_object(e.obj, DefaultRules)

\* the per-frame loop has ended, by reaching the report or by an exception
LoopEnded == pc = "done" \/ (pc = "raised" /\ raised.line \in {144, 167})

\* C9: an object without instance_token (absent or empty) is in no track and
\* gets no motion check, but check_object is run on it and its issues are
\* reported; an object with an instance_token is in exactly the track of
\* that token.
C9_UntrackedObjectsStillChecked ==
    /\ pc = "frames" =>
          \A e \in Range(Encountered(cached_data)) :
              IF HasInstance(e.obj)
              THEN /\ Cardinality(TracksHolding(e.ref)) = 1
                   /\ \A h \in TracksHolding(e.ref) :
                         tracks[h[1]].key = e.obj.instance_token
              ELSE TracksHolding(e.ref) = {}
    /\ \A c \in motion_calls : HasInstance(ObjectAt(c.obj))
    /\ LoopEnded =>
          \A e \in Range(Encountered(cached_data)) :
              ~HasInstance(e.obj) =>
                  /\ \E r \in checked : r.pos = e.ref.pos
                  /\ check_object(e.obj, DefaultRules) # <<>> => Reported(e)

\* C10: process_all terminates normally with a report also when an object
\* carries an instance_token: the motion-alignment check is invoked for the
\* object and the invocation raises no exception.
C10_MotionCheckInvokedWithoutException ==
    /\ ~(raised.exc # "none" /\ raised.line = 167)
    /\ pc = "done" =>
          \A e \in Range(Encountered(cached_data)) :
              HasInstance(e.obj) => \E c \in motion_calls : c.obj.pos = e.ref.pos

(***************************************************************************)
(* Properties of the geometry validator and of the speed regimes           *)
(* (checked under SpecRules)                                               *)
(***************************************************************************)
\* the entries check_object reads from the rule configuration
RequiredEntries == {"min_lidar_points", "vehicle", "pedestrian", "cone", "sign"}

\* the configuration has 'rules', and every required entry in it
CompleteConfig(config) ==
    "rules" \in DOMAIN config /\ RequiredEntries \subseteq DOMAIN config.rules

IssueCount(issues, kind) == Cardinality({i \in 1..Len(issues) : issues[i].issue = kind})

SizeIssueCount(issues) ==
    IssueCount(issues, "length") + IssueCount(issues, "width") + IssueCount(issues, "height")

CheckObjectCalled == rule_call.op = "check_object"

CheckObjectReturned == CheckObjectCalled /\ rule_result.kind = "returned"

\* C11: a configuration lacking a required entry is rejected by the
\* constructor, and no check_object call on a constructed checker fails on a
\* missing configuration entry
C11_ConfigRejectedAtConstruction ==
    /\ (rule_call.op = "__init__" /\ ~CompleteConfig(rule_call.config))
          => rule_result.kind = "raised"
    /\ CheckObjectCalled => ~(rule_result.kind = "raised" /\ rule_result.exc = "KeyError")

\* the sum of squares of a 4-component rotation, in units of 1e-4
NormSquared(rotation) ==
    rotation[1] * rotation[1] + rotation[2] * rotation[2]
        + rotation[3] * rotation[3] + rotation[4] * rotation[4]

\* the object violates none of the size, normalization and attitude rules
NoOtherViolation(obj, rls) ==
    LET label == Lower(obj.Class)
        key == RuleKey(label)
    IN  /\ (Len(obj.size) = 3 /\ key # "none") =>
              /\ InRange(obj.size[1], rls[key].length_range)
              /\ InRange(obj.size[2], rls[key].width_range)
              /\ InRange(obj.size[3], rls[key].height_range)
        /\ Len(obj.rotation) = 4 =>
              /\ NormSquared(obj.rotation) \in 9801..10201
              /\ Contains(label, StrVehicle) =>
                    ~RollExceeds(obj.rotation) /\ ~PitchExceeds(obj.rotation)

\* C12: a too-few-points issue is reported exactly when the point count is
\* strictly below min_lidar_points, and an object that meets the minimum and
\* violates no other rule gets an empty issue list
C12_TooFewPointsIffBelowMinimum ==
    CheckObjectReturned =>
        LET obj == rule_call.obj
            issues == rule_result.value
        IN  /\ IssueCount(issues, "too_few_points") =
                  (IF obj.num_lidar_pts < self_rules.min_lidar_points THEN 1 ELSE 0)
            /\ (obj.num_lidar_pts >= self_rules.min_lidar_points
                  /\ NoOtherViolation(obj, self_rules)) => issues = <<>>

\* a count equal to the minimum was checked and nothing was reported
C12_Witness ==
    /\ CheckObjectReturned
    /\ rule_call.obj.num_lidar_pts = self_rules.min_lidar_points
    /\ rule_result.value = <<>>

\* the keywords of the size rule sets, in the order they are tested
Keywords == <<[word |-> StrVehicle, key |-> "vehicle"],
              [word |-> StrPedestrian, key |-> "pedestrian"],
              [word |-> StrCone, key |-> "cone"],
              [word |-> StrSign, key |-> "sign"]>>

Matching(label) == {i \in 1..Len(Keywords) : Contains(label, Keywords[i].word)}

\* the number of axes of size outside the ranges of rule
ViolatedAxes(size, rule) ==
    (IF rule.length_range[1] <= size[1] /\ size[1] <= rule.length_range[2] THEN 0 ELSE 1)
    + (IF rule.width_range[1] <= size[2] /\ size[2] <= rule.width_range[2] THEN 0 ELSE 1)
    + (IF rule.height_range[1] <= size[3] /\ size[3] <= rule.height_range[2] THEN 0 ELSE 1)

\* C13: the size rule set is the one of the first keyword, in the order
\* vehicle, pedestrian, cone, sign, that the lower-cased label contains; a
\* label containing none gets no size issue and reads no rule set
C13_FirstMatchingKeywordSelectsRule ==
    CheckObjectCalled =>
        LET obj == rule_call.obj
            m == Matching(Lower(obj.Class))
        IN  IF m = {}
            THEN /\ "min_lidar_points" \in DOMAIN self_rules => rule_result.kind = "returned"
                 /\ rule_result.kind = "returned" => SizeIssueCount(rule_result.value) = 0
            ELSE LET first == CHOOSE i \in m : \A j \in m : i <= j
                 IN  (rule_result.kind = "returned" /\ Len(obj.size) = 3) =>
                        SizeIssueCount(rule_result.value) =
                            ViolatedAxes(obj.size, self_rules[Keywords[first].key])

\* a label holding 'sign' before 'vehicle' was judged by the vehicle rule set
C13_Witness ==
    /\ CheckObjectReturned
    /\ rule_call.obj.Class = StrSignVehicle
    /\ Len(rule_call.obj.size) = 3
    /\ IssueCount(rule_result.value, "length") = 1

\* C14: with a matching rule set and a 3-value size, one issue is emitted per
\* axis whose value is outside the closed interval [lo, hi], none for an axis
\* inside it, bounds included
C14_OneSizeIssuePerViolatedAxis ==
    (CheckObjectReturned /\ Len(rule_call.obj.size) = 3
        /\ Matching(Lower(rule_call.obj.Class)) # {}) =>
        LET size == rule_call.obj.size
            rule == self_rules[RuleKey(Lower(rule_call.obj.Class))]
            issues == rule_result.value
            Out(x, range) == x < range[1] \/ x > range[2]
        IN  /\ IssueCount(issues, "length") = (IF Out(size[1], rule.length_range) THEN 1 ELSE 0)
            /\ IssueCount(issues, "width") = (IF Out(size[2], rule.width_range) THEN 1 ELSE 0)
            /\ IssueCount(issues, "height") = (IF Out(size[3], rule.height_range) THEN 1 ELSE 0)
            /\ SizeIssueCount(issues) = ViolatedAxes(size, rule)

\* a vehicle with every axis on a bound of its range got no size issue
C14_Witness ==
    /\ CheckObjectReturned
    /\ rule_call.obj.Class = StrVehicle
    /\ rule_call.obj.size = <<150, 100, 400>>
    /\ SizeIssueCount(rule_result.value) = 0

C16_ThreeSpeedRegimes ==
    rule_call.op = "classify_motion_state" =>
        LET v == rule_call.velocity
        IN  /\ rule_result.kind = "returned"
            /\ rule_result.value \in {"static", "low_speed", "normal_speed"}
            /\ rule_result.value = "static" <=> v < 10
            /\ rule_result.value = "low_speed" <=> (10 <= v /\ v < 50)
            /\ rule_result.value = "normal_speed" <=> v >= 50

\* a speed of exactly 0.1 m/s was classified low_speed
C16_Witness ==
    /\ rule_call.op = "classify_motion_state"
    /\ rule_call.velocity = 10
    /\ rule_result = Returned("low_speed")

(***************************************************************************)
(* Properties of the coordinate transform and of the motion validators     *)
(* (checked under SpecMotion)                                              *)
(***************************************************************************)
AlignmentCalled == rule_call.op = "check_motion_alignment"

\* the angle a - b brought into [0, pi]
AngularDistance(a, b) ==
    LET d == (a - b) % (2 * Pi)
    IN  IF d > Pi THEN 2 * Pi - d ELSE d

\* the pose of the frame of the anchor sample, None when it has none
AnchorPose(track, frame_idx, frame_to_ins) ==
    FrameIns(frame_to_ins, track[frame_idx + 1].k)

\* ego yaw at the anchor pose + object yaw in ego frame
WorldHeading(obj, anchor_pose) ==
    get_euler_yaw(obj.rotation, RotOne)
        + (IF anchor_pose = NoResult THEN 0 ELSE get_euler_yaw(EgoQuat(anchor_pose), MatOne))

\* C17: for a vehicle-like object with a heading and a motion vector of
\* sufficient length, the difference of motion heading and world heading is
\* brought into [0, pi]; within the regime tolerance of 0 there is no issue,
\* within it of pi one reverse-motion notice (regime not static), otherwise
\* exactly one heading-inconsistent issue carrying the difference
C17_HeadingComparedInWorldFrame ==
    AlignmentCalled =>
        LET obj == rule_call.obj
            track == rule_call.track
            frame_idx == rule_call.frame_idx
            frame_to_ins == rule_call.frame_to_ins
            estimate == estimate_motion_vector(track, frame_idx, frame_to_ins)
            d2 == estimate.v[1] * estimate.v[1] + estimate.v[2] * estimate.v[2]
            regime == classify_motion_state(Surd(4 * d2, QuatOne))
            delta == AngularDistance(Atan2(estimate.v[2], estimate.v[1]),
                                     WorldHeading(obj, AnchorPose(track, frame_idx,
                                                                  frame_to_ins)))
            tolerance == RegimeTolerance(regime)
        IN  (/\ IsVehicle(Lower(obj.Class))
             /\ Len(obj.rotation) = 4
             /\ estimate # NoResult
             /\ ~SurdLess(Surd(d2, MatOne), MinMotionThreshold(regime))) =>
                rule_result =
                    Returned(IF delta < tolerance THEN <<>>
                             ELSE IF Pi - delta < tolerance
                             THEN (IF regime # "static"
                                   THEN <<[issue |-> "reverse_motion", state |-> regime,
                                           diff |-> delta]>>
                                   ELSE <<>>)
                             ELSE <<[issue |-> "heading_inconsistent", state |-> regime,
                                     diff |-> delta]>>)

\* C18: neither motion validator emits an issue for a track of fewer than 3
\* entries
C18_ShortTracksGetNoMotionIssue ==
    /\ (rule_call.op = "check_trajectory_consistency" /\ Len(rule_call.track) < 3)
          => rule_result = Returned(<<>>)
    /\ (AlignmentCalled /\ Len(rule_call.track) < 3) => rule_result = Returned(<<>>)

\* C19: transform_to_world returns R(q) * p + t with R built from the pose
\* quaternion in (w, x, y, z) order as supplied, without renormalization; for
\* q = (1, 0, 0, 0) this is p + t
C19_TransformIsRotationPlusTranslation ==
    rule_call.op = "transform_to_world" =>
        LET e == rule_call.ins_entry
            p == rule_call.pos_ego
            w == e.quaternion_w
            x == e.quaternion_x
            y == e.quaternion_y
            z == e.quaternion_z
        IN  /\ rule_result.kind = "returned"
            /\ rule_result.value[1] =
                  (25 - 2 * y * y - 2 * z * z) * p[1] + (2 * x * y - 2 * w * z) * p[2]
                      + (2 * x * z + 2 * w * y) * p[3] + 25 * e.utm_x
            /\ rule_result.value[2] =
                  (2 * x * y + 2 * w * z) * p[1] + (25 - 2 * x * x - 2 * z * z) * p[2]
                      + (2 * y * z - 2 * w * x) * p[3] + 25 * e.utm_y
            /\ rule_result.value[3] =
                  (2 * x * z - 2 * w * y) * p[1] + (2 * y * z + 2 * w * x) * p[2]
                      + (25 - 2 * x * x - 2 * y * y) * p[3] + 25 * e.utm_z
            /\ (w = 5 /\ x = 0 /\ y = 0 /\ z = 0) =>
                  rule_result.value = <<25 * (p[1] + e.utm_x), 25 * (p[2] + e.utm_y),
                                        25 * (p[3] + e.utm_z)>>

\* a quaternion of norm 2 about z was used as supplied: the planar part is
\* scaled by -7, where the unit quaternion would give -1
C19_Witness ==
    /\ rule_call.op = "transform_to_world"
    /\ rule_call.pos_ego = <<1, 2, 3>>
    /\ rule_call.ins_entry = Pose(<<100, 0, 0>>, <<0, 0, 0, 10>>)
    /\ rule_result = Returned(<<25 * (-7 + 100), 25 * (-14), 25 * 3>>)

\* C20: the motion vector is nearest-forward minus nearest-backward sample
\* (offsets +1 and -1); at the first entry nearest-forward minus anchor, at
\* the last anchor minus nearest-backward
C20_MotionVectorFromNearestSamples ==
    (rule_call.op = "_estimate_motion_vector" /\ rule_call.frame_idx < Len(rule_call.track)) =>
        LET track == rule_call.track
            frame_idx == rule_call.frame_idx
            At(i) == SamplePosition(track, i, rule_call.frame_to_ins)
            forward == frame_idx + 1 < Len(track)
            backward == frame_idx >= 1
        IN  rule_result.value =
                IF forward /\ backward
                THEN [kind |-> "vector", v |-> VecSub(At(frame_idx + 1), At(frame_idx - 1))]
                ELSE IF forward
                THEN [kind |-> "vector", v |-> VecSub(At(frame_idx + 1), At(frame_idx))]
                ELSE IF backward
                THEN [kind |-> "vector", v |-> VecSub(At(frame_idx), At(frame_idx - 1))]
                ELSE NoResult

(***************************************************************************)
(* Properties of the motion validators under missing or mismatched poses   *)
(* and of their thresholds (checked under SpecMotion)                      *)
(***************************************************************************)
\* C21: the pose whose yaw check_motion_alignment adds to the object's yaw is
\* the pose of the frame of the anchor sample, the one the anchor position is
\* transformed with, whatever the frame identifiers of the track are
C21_EgoYawFromAnchorPose ==
    (AlignmentCalled /\ rule_call.frame_idx < Len(rule_call.track)) =>
        AlignmentIns(rule_call.frame_idx, rule_call.frame_to_ins)
            = AnchorPose(rule_call.track, rule_call.frame_idx, rule_call.frame_to_ins)

\* the sample at index i (0-based) of the call's track has a pose
SampleHasPose(i) ==
    FrameIns(rule_call.frame_to_ins, rule_call.track[i + 1].k) # NoResult

\* C22: with poses missing, check_motion_alignment and its motion vector
\* estimate never raise, and the motion vector is the difference of two
\* sample positions in one coordinate frame: both transformed to world frame
\* or both left in ego frame
C22_MotionVectorInOneFrame ==
    /\ (AlignmentCalled \/ rule_call.op = "_estimate_motion_vector")
          => rule_result.kind = "returned"
    /\ (rule_call.op = "_estimate_motion_vector" /\ rule_result.value # NoResult) =>
          \E i, j \in 0..(Len(rule_call.track) - 1) :
              /\ SampleHasPose(i) = SampleHasPose(j)
              /\ rule_result.value.v =
                    VecSub(SamplePosition(rule_call.track, i, rule_call.frame_to_ins),
                           SamplePosition(rule_call.track, j, rule_call.frame_to_ins))

\* the motion vector of the alignment call, and its squared planar length in
\* squares of a 25th of a centimetre
AlignmentEstimate ==
    estimate_motion_vector(rule_call.track, rule_call.frame_idx, rule_call.frame_to_ins)

AlignmentPlanarSquared ==
    AlignmentEstimate.v[1] * AlignmentEstimate.v[1]
        + AlignmentEstimate.v[2] * AlignmentEstimate.v[2]

\* C23: check_motion_alignment returns no issue when the planar magnitude of
\* the motion vector is below the minimum of its regime: 0.05 m in static
\* (magnitude / 0.1 s < 0.1 m/s), 0.10 m in low_speed (< 0.5 m/s), 0.20 m in
\* normal_speed
C23_NoIssueBelowRegimeMinimum ==
    (AlignmentCalled /\ AlignmentEstimate # NoResult) =>
        LET d2 == AlignmentPlanarSquared
            \* magnitudes of 1 cm, 5 cm, 10 cm and 20 cm, squared
            static == d2 < 25 * 25
            low_speed == ~static /\ d2 < 125 * 125
            below == \/ static /\ d2 < 125 * 125
                     \/ low_speed /\ d2 < 250 * 250
                     \/ ~static /\ ~low_speed /\ d2 < 500 * 500
        IN  below => rule_result = Returned(<<>>)

\* a vehicle displaced by 0.15 m (normal_speed at 1.5 m/s) whose heading is
\* across its motion: skipped
C23_Witness ==
    /\ AlignmentCalled
    /\ AlignmentEstimate # NoResult
    /\ AlignmentPlanarSquared = (25 * 15) * (25 * 15)
    /\ IsVehicle(Lower(rule_call.obj.Class))
    /\ rule_call.obj.rotation = <<71, 0, 0, 71>>
    /\ rule_call.frame_to_ins = NoResult
    /\ rule_result = Returned(<<>>)

\* C29: every issue of check_motion_alignment is produced in the normal_speed
\* regime, for a planar displacement of at least 0.2 m and with the tolerance
\* 0.8 * 0.5236 rad; in the static and low_speed regimes the displacement is
\* below the minimum of the regime and the comparison is not reached
C29_IssuesOnlyAtNormalSpeed ==
    AlignmentCalled =>
        /\ rule_result.kind = "returned"
        /\ \A n \in 1..Len(rule_result.value) :
              LET issue == rule_result.value[n]
              IN  /\ AlignmentEstimate # NoResult
                  /\ AlignmentPlanarSquared >= 500 * 500
                  /\ issue.state = "normal_speed"
                  /\ issue.issue = "heading_inconsistent" =>
                        issue.diff >= 418880 /\ Pi - issue.diff >= 418880
                  /\ issue.issue = "reverse_motion" => Pi - issue.diff < 418880
        /\ AlignmentEstimate # NoResult =>
              LET dist == Surd(AlignmentPlanarSquared, MatOne)
                  regime == classify_motion_state(Surd(4 * AlignmentPlanarSquared, QuatOne))
              IN  regime \in {"static", "low_speed"} =>
                      /\ SurdLess(dist, MinMotionThreshold(regime))
                      /\ rule_result = Returned(<<>>)

\* a vehicle in the low_speed regime (0.03 m, 0.3 m/s) with its heading
\* across the motion: nothing is returned
C29_Witness ==
    /\ AlignmentCalled
    /\ AlignmentEstimate # NoResult
    /\ AlignmentPlanarSquared = (25 * 3) * (25 * 3)
    /\ IsVehicle(Lower(rule_call.obj.Class))
    /\ rule_call.obj.rotation = <<71, 0, 0, 71>>
    /\ rule_result = Returned(<<>>)

(***************************************************************************)
(* Properties of check_trajectory_consistency (checked under SpecMotion)   *)
(***************************************************************************)
\* check_trajectory_consistency returned for a track of at least 3 samples
TrajectoryChecked ==
    /\ rule_call.op = "check_trajectory_consistency"
    /\ Len(rule_call.track) >= 3
    /\ rule_result.kind = "returned"

TrajectoryIssues(kind) ==
    SelectSeq(rule_result.value, LAMBDA issue : issue.issue = kind)

\* interval i lies between the samples i and i + 1 (1-based) of the track:
\* its time difference in ticks of 100 ms, and the squares of its planar and
\* spatial displacement in 25ths of a centimetre
IntervalTicks(i) ==
    TimestampOf(rule_call.track[i + 1]).v[1] - TimestampOf(rule_call.track[i]).v[1]

IntervalPlanarSquared(i) ==
    LET positions == TrajectoryPositionsOf(rule_call.track, rule_call.frame_to_ins)
    IN  PlanarSquared(positions[i + 1], positions[i])

IntervalSpatialSquared(i) ==
    LET positions == TrajectoryPositionsOf(rule_call.track, rule_call.frame_to_ins)
    IN  SpatialSquared(positions[i + 1], positions[i])

\* planar speed < 0.1 m/s: less than 1 cm per tick
IntervalStatic(i) ==
    /\ IntervalTicks(i) > 0
    /\ IntervalPlanarSquared(i) < (25 * IntervalTicks(i)) * (25 * IntervalTicks(i))

\* C24: for a track of at least 3 samples, a position-jump-while-static issue
\* is emitted whenever a static interval is immediately followed by an
\* interval whose planar displacement exceeds 0.5 m, the last interval of the
\* track included
C24_JumpAfterStaticInterval ==
    TrajectoryChecked =>
        \A i \in 1..(Len(rule_call.track) - 2) :
            (/\ IntervalStatic(i)
             /\ IntervalTicks(i + 1) > 0
             /\ IntervalPlanarSquared(i + 1) > (25 * 50) * (25 * 50))
                => TrajectoryIssues("static_jump") # <<>>

\* the planar dot product of the displacements of the intervals i and i + 1
SuccessiveDot(i) ==
    LET positions == TrajectoryPositionsOf(rule_call.track, rule_call.frame_to_ins)
        a == VecSub(positions[i + 1], positions[i])
        b == VecSub(positions[i + 2], positions[i + 1])
    IN  a[1] * b[1] + a[2] * b[2]

\* C25: for a track of at least 3 samples (3 already qualify), one
\* abrupt-direction-change issue is emitted for each pair of successive
\* displacement vectors whose angle exceeds pi / 2 (negative planar dot
\* product), and none for a pair whose angle is at most pi / 2
C25_IssuePerSharpTurn ==
    TrajectoryChecked =>
        Len(TrajectoryIssues("direction_change"))
            = Cardinality({i \in 1..(Len(rule_call.track) - 2) : SuccessiveDot(i) < 0})

\* the intervals that have a speed (positive time difference), in track
\* order, and the number of regime changes between adjacent speeds
TimedIntervals ==
    SelectSeq([i \in 1..(Len(rule_call.track) - 1) |-> i], LAMBDA i : IntervalTicks(i) > 0)

\* the regime of interval i: 0 static, 1 low_speed, 2 normal_speed (under
\* 1 cm, under 5 cm, or more per tick)
IntervalRegime(i) ==
    LET d2 == IntervalPlanarSquared(i)
        t == IntervalTicks(i)
    IN  IF d2 < (25 * t) * (25 * t) THEN 0
        ELSE IF d2 < (125 * t) * (125 * t) THEN 1
        ELSE 2

RegimeChanges ==
    Cardinality({j \in 2..Len(TimedIntervals) :
                    IntervalRegime(TimedIntervals[j]) # IntervalRegime(TimedIntervals[j - 1])})

\* C26: exactly one unstable-motion-state-switching issue is emitted when the
\* number of adjacent regime changes along the interval speeds exceeds 60% of
\* the number of inter-sample intervals (5 * changes > 3 * intervals), and
\* none otherwise
C26_SwitchingAboveSixtyPercent ==
    TrajectoryChecked =>
        Len(TrajectoryIssues("state_switching"))
            = IF 5 * RegimeChanges > 3 * (Len(rule_call.track) - 1) THEN 1 ELSE 0

\* the issues of one kind that carry the number of interval i
IssuesAt(kind, i) ==
    SelectSeq(rule_result.value, LAMBDA issue : issue.issue = kind /\ issue.index = i)

\* C27: an interval of equal timestamps raises nothing and gets no speed or
\* jump issue, and the jump check of every other interval uses the speed and
\* the time difference of that interval: a position-jump-while-static issue
\* of interval i means that interval i has a positive time difference, is
\* static and is longer than 0.5 m
C27_ZeroTimeDifferenceSkipped ==
    (/\ rule_call.op = "check_trajectory_consistency"
     /\ Len(rule_call.track) >= 3
     /\ \A i \in 1..Len(rule_call.track) : TimestampOf(rule_call.track[i]).t = "int") =>
        /\ rule_result.kind = "returned"
        /\ \A i \in 1..(Len(rule_call.track) - 1) :
              /\ IntervalTicks(i) = 0 =>
                    /\ IssuesAt("discontinuous", i) = <<>>
                    /\ IssuesAt("static_jump", i) = <<>>
              /\ IssuesAt("static_jump", i) # <<>> =>
                    /\ IntervalStatic(i)
                    /\ IntervalSpatialSquared(i) > (25 * 50) * (25 * 50)

(***************************************************************************)
(* Agreement of the class predicates of the validators                     *)
(* (checked under SpecRules)                                               *)
(***************************************************************************)
\* C30: every object whose label check_motion_alignment takes as vehicle-like
\* (containing vehicle, car, truck, bus, motorcycle or bicycle) is treated as
\* a vehicle by check_object: its 3-value size is judged by the vehicle rule
\* set, and its 4-value rotation gets the roll and the pitch check
C30_VehicleLikeCheckedAsVehicle ==
    (CheckObjectReturned /\ IsVehicle(Lower(rule_call.obj.Class))
        /\ "vehicle" \in DOMAIN self_rules) =>
        LET obj == rule_call.obj
            issues == rule_result.value
        IN  /\ Len(obj.size) = 3 =>
                  SizeIssueCount(issues) = ViolatedAxes(obj.size, self_rules.vehicle)
            /\ Len(obj.rotation) = 4 =>
                  /\ IssueCount(issues, "roll") = (IF RollExceeds(obj.rotation) THEN 1 ELSE 0)
                  /\ IssueCount(issues, "pitch") = (IF PitchExceeds(obj.rotation) THEN 1 ELSE 0)

(***************************************************************************)
(* Frame effect of the validators (checked under SpecFrame)                *)
(***************************************************************************)
\* the checker, its pose log and index, and the tracks with their objects
FrameState == <<self_rules, self_thresholds, ins_data, ins_index, tracks>>

\* two entries of the log are the same call
SameCall(a, b) == a.op = b.op /\ a.track = b.track /\ a.frame_idx = b.frame_idx

\* C28: check_object, check_motion_alignment and check_trajectory_consistency
\* leave unchanged the rule configuration and the thresholds of the checker,
\* the pose index, the tracks and every object in them; a call repeated with
\* the same arguments returns the same issue list, whatever calls on other
\* objects or tracks were made in between
C28_ValidatorsLeaveStateAndRepeat ==
    /\ [][rule_log' # rule_log => FrameState' = FrameState]_vars
    /\ [](\A m, n \in 1..Len(rule_log) :
            SameCall(rule_log[m], rule_log[n]) => rule_log[m].result = rule_log[n].result)

\* a call that found issues was repeated after a call on the other track
C28_Witness ==
    /\ Len(rule_log) = 3
    /\ SameCall(rule_log[1], rule_log[3])
    /\ rule_log[2].track # rule_log[1].track
    /\ rule_log[1].result.kind = "returned"
    /\ rule_log[1].result.value # <<>>
    /\ rule_log[2].result.value # <<>>

====
